---- MODULE Spec2Model ----
(***************************************************************************)
(* A model of the memcached binary protocol codec of async-memcached-proto *)
(* (src/src/packet.rs, its older variant src/src/binary/packet.rs, and the *)
(* code tables of src/src/code.rs and src/src/error.rs).                   *)
(*                                                                         *)
(* Bytes are integers 0..255 and byte strings are sequences of bytes.      *)
(* u8 and u16 values keep their width; u32 and u64 values are naturals     *)
(* below 2^31 (the integers TLC evaluates), written to and read from the   *)
(* wire with their full width of 4 and 8 bytes.                            *)
(***************************************************************************)
EXTENDS Integers, Sequences, FiniteSets, TLC

VARIABLES
    built,  \* the constructor call that produced hdr / pkt, with its arguments
    hdr,    \* the PacketHeader that call returned
    pkt,    \* the Packet that call returned (NoPkt for a header builder)
    chan,   \* the calls made on the writer W, in order (write_all / flush)
    wret,   \* what the last write_to returned
    wire,   \* the bytes ahead of the reader R
    rret,   \* what the last read_from returned
    refw,   \* the write_to of a PacketRef over the packet's parts: the calls
            \* it made on a writer of its own, and what it returned
    call,   \* the last call of a stand-alone function, with its arguments
    ret,    \* what that call returned
    conn    \* the operation in flight on a client's connection: its requests,
            \* what the peer made of them, and how far the client has read

vars == <<built, hdr, pkt, chan, wret, wire, rret, refw, call, ret, conn>>

---------------------------------------------------------------------------
(* Bounds of the model. *)

\* longest value (in bytes) given to a constructor
MaxValLen == 3
\* longest body (in bytes) a peer puts behind an injected header
MaxBodyLen == 8
\* longest stand-alone buffer handed to Extras::parse for an unmapped opcode
MaxRawLen == 3
\* most quiet requests of one batch
MaxBatch == 3
\* most challenges a peer sends in one authentication handshake
MaxChallenges == 2
\* most keys given to one get_multi
MaxKeys == 3

---------------------------------------------------------------------------
(* Code tables: src/src/code.rs *)

OpcodeTable ==
    << <<"Get", 0>>, <<"Set", 1>>, <<"Add", 2>>, <<"Replace", 3>>,
       <<"Delete", 4>>, <<"Increment", 5>>, <<"Decrement", 6>>, <<"Quit", 7>>,
       <<"Flush", 8>>, <<"GetQ", 9>>, <<"NoOp", 10>>, <<"Version", 11>>,
       <<"GetK", 12>>, <<"GetKQ", 13>>, <<"Append", 14>>, <<"Prepend", 15>>,
       <<"Stat", 16>>, <<"SetQ", 17>>, <<"AddQ", 18>>, <<"ReplaceQ", 19>>,
       <<"DeleteQ", 20>>, <<"IncrementQ", 21>>, <<"DecrementQ", 22>>,
       <<"QuitQ", 23>>, <<"FlushQ", 24>>, <<"AppendQ", 25>>,
       <<"PrependQ", 26>>, <<"Verbosity", 27>>, <<"Touch", 28>>,
       <<"GAT", 29>>, <<"GATQ", 30>>,
       <<"SASLListMechs", 32>>, <<"SASLAuth", 33>>, <<"SASLStep", 34>>,
       <<"RGet", 48>>, <<"RSet", 49>>, <<"RSetQ", 50>>, <<"RAppend", 51>>,
       <<"RAppendQ", 52>>, <<"RPrepend", 53>>, <<"RPrependQ", 54>>,
       <<"RDelete", 55>>, <<"RDeleteQ", 56>>, <<"RIncr", 57>>,
       <<"RIncrQ", 58>>, <<"RDecr", 59>>, <<"RDecrQ", 60>>,
       <<"SetVBucket", 61>>, <<"GetVBucket", 62>>, <<"DelVBucket", 63>>,
       <<"TapConnect", 64>>, <<"TapMutation", 65>>, <<"TapDelete", 66>>,
       <<"TapFlush", 67>>, <<"TapOpaque", 68>>, <<"TapVBucketSet", 69>>,
       <<"TapCheckPointStart", 70>>, <<"TabCheckPointEnd", 71>> >>

Opcode == { OpcodeTable[i][1] : i \in DOMAIN OpcodeTable }

\* `opcode as u8`
Opcode_as_u8(o) ==
    LET i == CHOOSE j \in DOMAIN OpcodeTable : OpcodeTable[j][1] = o
    IN  OpcodeTable[i][2]

\* the Option a derived FromPrimitive returns
Some(v) == [some |-> TRUE, v |-> v]
None == [some |-> FALSE]

\* Opcode::from_u8 (derive FromPrimitive)
Opcode_from_u8(b) ==
    IF \E j \in DOMAIN OpcodeTable : OpcodeTable[j][2] = b
    THEN Some(OpcodeTable[CHOOSE j \in DOMAIN OpcodeTable : OpcodeTable[j][2] = b][1])
    ELSE None

MagicTable == << <<"Request", 128>>, <<"Response", 129>> >>

Magic == { MagicTable[i][1] : i \in DOMAIN MagicTable }

\* `magic as u8`
Magic_as_u8(m) ==
    LET i == CHOOSE j \in DOMAIN MagicTable : MagicTable[j][1] = m
    IN  MagicTable[i][2]

\* Magic::from_u8 (derive FromPrimitive)
Magic_from_u8(b) ==
    IF \E j \in DOMAIN MagicTable : MagicTable[j][2] = b
    THEN Some(MagicTable[CHOOSE j \in DOMAIN MagicTable : MagicTable[j][2] = b][1])
    ELSE None

\* <<variant, value, description>>: enum Status and Status::desc
StatusTable ==
    << <<"NoError", 0, "no error">>,
       <<"KeyNotFound", 1, "key not found">>,
       <<"KeyExits", 2, "key exists">>,
       <<"ValueTooLarge", 3, "value too large">>,
       <<"InvalidArguments", 4, "invalid arguments">>,
       <<"ItemNotStored", 5, "item not stored">>,
       <<"IncrOrDecrOnNonNumericValue", 6, "incr/Decr on non-numeric value">>,
       <<"VbucketBelongsToAnotherServer", 7, "the vbucket belongs to another server">>,
       <<"AuthenticationError", 8, "authentication error">>,
       <<"AuthenticationContinue", 9, "authentication continue">>,
       <<"UnknownCommand", 129, "unknown command">>,
       <<"OutOfMemory", 130, "out of memory">>,
       <<"NotSupported", 131, "not supported">>,
       <<"InternalError", 132, "internal error">>,
       <<"Busy", 133, "busy">>,
       <<"TemporaryFailure", 134, "temporary failure">>,
       <<"AuthenticationRequired", 32, "authentication required/not successful">>,
       <<"AuthenticationFurtherStepRequired", 33, "further authentication steps required">> >>

Status == { StatusTable[i][1] : i \in DOMAIN StatusTable }

\* `status as u16`
Status_as_u16(s) ==
    LET i == CHOOSE j \in DOMAIN StatusTable : StatusTable[j][1] = s
    IN  StatusTable[i][2]

\* Status::from_u16 (derive FromPrimitive)
Status_from_u16(v) ==
    IF \E j \in DOMAIN StatusTable : StatusTable[j][2] = v
    THEN Some(StatusTable[CHOOSE j \in DOMAIN StatusTable : StatusTable[j][2] = v][1])
    ELSE None

\* Status::desc
Status_desc(s) ==
    LET i == CHOOSE j \in DOMAIN StatusTable : StatusTable[j][1] = s
    IN  StatusTable[i][3]

---------------------------------------------------------------------------
(* Integer casts and byte order. *)

\* `n as u8` of a usize: the low 8 bits
AsU8(n) == n % 256

\* `n as u16` of a usize: the low 16 bits
AsU16(n) == n % 65536

\* `n as u32` of a usize: the low 32 bits
AsU32(n) == ((n \div 65536) % 65536) * 65536 + (n % 65536)

RECURSIVE to_be_bytes(_, _)
\* uN::to_be_bytes: the n bytes of v, most significant first
to_be_bytes(v, n) ==
    IF n = 0 THEN <<>> ELSE Append(to_be_bytes(v \div 256, n - 1), v % 256)

RECURSIVE from_be_bytes(_)
\* the unsigned big-endian number a byte string spells (Buf::get_uN, ReadBytesExt)
from_be_bytes(b) ==
    IF Len(b) = 0 THEN 0
    ELSE from_be_bytes(SubSeq(b, 1, Len(b) - 1)) * 256 + b[Len(b)]

---------------------------------------------------------------------------
(* Results: io::Result<T>, and a panic of the called function. *)

Ok(v) == [tag |-> "Ok", v |-> v]
Err(kind) == [tag |-> "Err", kind |-> kind]
Panic == [tag |-> "Panic"]

\* WriteBytesExt::write_u16::<BigEndian>: the buffer handed to write_all
write_u16_BE(v) == << (v \div 256) % 256, v % 256 >>

\* WriteBytesExt::write_u32::<BigEndian>: the buffer handed to write_all
write_u32_BE(v) ==
    << ((v \div 65536) \div 256) % 256, (v \div 65536) % 256,
       (v \div 256) % 256, v % 256 >>

\* WriteBytesExt::write_u64::<BigEndian>: the buffer handed to write_all
write_u64_BE(v) ==
    write_u32_BE((v \div 65536) \div 65536) \o write_u32_BE(AsU32(v))

RECURSIVE read_be_fields(_, _)
\* successive ReadBytesExt::read_uN::<BigEndian>()? on a slice: each read takes
\* widths[i] bytes off the front, and the first read the slice cannot fill
\* returns UnexpectedEof
read_be_fields(buf, widths) ==
    IF Len(widths) = 0 THEN Ok(<<>>)
    ELSE IF Len(buf) < widths[1] THEN Err("UnexpectedEof")
    ELSE LET rest == read_be_fields(SubSeq(buf, widths[1] + 1, Len(buf)), Tail(widths))
         IN  IF rest.tag = "Ok"
             THEN Ok(<<from_be_bytes(SubSeq(buf, 1, widths[1]))>> \o rest.v)
             ELSE rest

---------------------------------------------------------------------------
(* enum Extras: src/src/packet.rs *)

Extras_None == [tag |-> "None"]
Extras_Unknown(b) == [tag |-> "Unknown", b |-> b]
Extras_Store(flags, expiration) ==
    [tag |-> "Store", flags |-> flags, expiration |-> expiration]
Extras_Counter(amount, initial, expiration) ==
    [tag |-> "Counter", amount |-> amount, initial |-> initial,
     expiration |-> expiration]
Extras_Flush(expiration) == [tag |-> "Flush", expiration |-> expiration]
Extras_Verbosity(verbosity) == [tag |-> "Verbosity", verbosity |-> verbosity]
Extras_Touch(expiration) == [tag |-> "Touch", expiration |-> expiration]
Extras_Get(flags) == [tag |-> "Get", flags |-> flags]

\* Extras::len
Extras_len(e) ==
    CASE e.tag = "None" -> 0
      [] e.tag = "Unknown" -> Len(e.b)
      [] e.tag = "Store" -> 4 + 4
      [] e.tag = "Counter" -> 8 + 8 + 4
      [] e.tag = "Flush" -> 4
      [] e.tag = "Verbosity" -> 4
      [] e.tag = "Touch" -> 4
      [] e.tag = "Get" -> 4

\* Extras::write that puts the expiration before the other fields
Extras_write_ExpirationFirst(e) ==
    CASE e.tag = "None" -> <<>>
      [] e.tag = "Unknown" -> << e.b >>
      [] e.tag = "Store" ->
            << to_be_bytes(e.expiration, 4), to_be_bytes(e.flags, 4) >>
      [] e.tag = "Counter" ->
            << to_be_bytes(e.expiration, 4), to_be_bytes(e.amount, 8),
               to_be_bytes(e.initial, 8) >>
      [] e.tag = "Flush" -> << to_be_bytes(e.expiration, 4) >>
      [] e.tag = "Verbosity" -> << to_be_bytes(e.verbosity, 4) >>
      [] e.tag = "Touch" -> << to_be_bytes(e.expiration, 4) >>
      [] e.tag = "Get" -> << to_be_bytes(e.flags, 4) >>

\* Extras::write: the buffers handed to write_all(..).await, in order
Extras_write(e) ==
    CASE e.tag = "None" -> <<>>
      [] e.tag = "Unknown" -> << e.b >>
      [] e.tag = "Store" ->
            << to_be_bytes(e.flags, 4), to_be_bytes(e.expiration, 4) >>
      [] e.tag = "Counter" ->
            << to_be_bytes(e.amount, 8), to_be_bytes(e.initial, 8),
               to_be_bytes(e.expiration, 4) >>
      [] e.tag = "Flush" -> << to_be_bytes(e.expiration, 4) >>
      [] e.tag = "Verbosity" -> << to_be_bytes(e.verbosity, 4) >>
      [] e.tag = "Touch" -> << to_be_bytes(e.expiration, 4) >>
      [] e.tag = "Get" -> << to_be_bytes(e.flags, 4) >>

\* Extras::write_sync: the buffers handed to write_all, in order
Extras_write_sync(e) ==
    CASE e.tag = "None" -> <<>>
      [] e.tag = "Unknown" -> << e.b >>
      [] e.tag = "Store" ->
            << write_u32_BE(e.flags), write_u32_BE(e.expiration) >>
      [] e.tag = "Counter" ->
            << write_u64_BE(e.amount), write_u64_BE(e.initial),
               write_u32_BE(e.expiration) >>
      [] e.tag = "Flush" -> << write_u32_BE(e.expiration) >>
      [] e.tag = "Verbosity" -> << write_u32_BE(e.verbosity) >>
      [] e.tag = "Touch" -> << write_u32_BE(e.expiration) >>
      [] e.tag = "Get" -> << write_u32_BE(e.flags) >>

\* the opcodes of each arm of the match in Extras::parse
StoreOpcodes == {"Set", "SetQ", "Add", "AddQ", "Replace", "ReplaceQ"}
GetOpcodes_NoQuiet == {"Get", "GetK"}
GetOpcodes == {"Get", "GetQ", "GetK", "GetKQ"}
CounterOpcodes == {"Increment", "IncrementQ", "Decrement", "DecrementQ"}
VerbosityOpcodes == {"Verbosity"}
TouchOpcodes == {"Touch", "GAT", "GATQ"}
\* the arm of Flush with FlushQ added to it
FlushOpcodes_WithQuiet == {"Flush", "FlushQ"}
FlushOpcodes == {"Flush"}

\* Extras::parse, without the test for an empty buffer
Extras_parse_nonempty(opcode, buf) ==
    CASE opcode \in StoreOpcodes ->
            LET r == read_be_fields(buf, <<4, 4>>)
            IN  IF r.tag = "Ok" THEN Ok(Extras_Store(r.v[1], r.v[2])) ELSE r
      [] opcode \in GetOpcodes ->
            LET r == read_be_fields(buf, <<4>>)
            IN  IF r.tag = "Ok" THEN Ok(Extras_Get(r.v[1])) ELSE r
      [] opcode \in CounterOpcodes ->
            LET r == read_be_fields(buf, <<8, 8, 4>>)
            IN  IF r.tag = "Ok"
                THEN Ok(Extras_Counter(r.v[1], r.v[2], r.v[3])) ELSE r
      [] opcode \in VerbosityOpcodes ->
            LET r == read_be_fields(buf, <<4>>)
            IN  IF r.tag = "Ok" THEN Ok(Extras_Verbosity(r.v[1])) ELSE r
      [] opcode \in TouchOpcodes ->
            LET r == read_be_fields(buf, <<4>>)
            IN  IF r.tag = "Ok" THEN Ok(Extras_Touch(r.v[1])) ELSE r
      [] opcode \in FlushOpcodes ->
            LET r == read_be_fields(buf, <<4>>)
            IN  IF r.tag = "Ok" THEN Ok(Extras_Flush(r.v[1])) ELSE r
      [] OTHER -> Ok(Extras_Unknown(buf))

\* Extras::parse with Touch/GAT/GATQ decoded by the arm of Flush
Extras_parse_TouchAsFlush(opcode, buf) ==
    IF Len(buf) = 0 THEN Ok(Extras_None)
    ELSE IF opcode \in TouchOpcodes THEN Extras_parse_nonempty("Flush", buf)
    ELSE Extras_parse_nonempty(opcode, buf)

\* Extras::parse without the early return for an empty buffer
Extras_parse_NoEmptyCheck(opcode, buf) == Extras_parse_nonempty(opcode, buf)

\* Extras::parse that takes the fields with Buf::get_u32 / get_u64, which
\* panic when the buffer is too short
Extras_parse_GetPanics(opcode, buf) ==
    IF Len(buf) = 0 THEN Ok(Extras_None)
    ELSE IF Extras_parse_nonempty(opcode, buf).tag = "Err" THEN Panic
    ELSE Extras_parse_nonempty(opcode, buf)

\* Extras::parse
Extras_parse(opcode, buf) ==
    IF Len(buf) = 0 THEN Ok(Extras_None)
    ELSE Extras_parse_nonempty(opcode, buf)

---------------------------------------------------------------------------
(* struct PacketHeader: src/src/packet.rs *)

\* PacketHeader::size
PacketHeader_size == 1 + 1 + 2 + 1 + 1 + 2 + 4 + 4 + 8

\* PacketHeader::request_from_payload
PacketHeader_request_from_payload(opcode, vbucket_id, opaque, cas, extras, key, val) ==
    [magic |-> "Request",
     opcode |-> opcode,
     key_len |-> AsU16(Len(key)),
     extras_len |-> AsU8(Extras_len(extras)),
     data_type |-> 0,
     vbucket_id_or_status |-> vbucket_id,
     body_len |-> AsU32(Len(key) + Extras_len(extras) + Len(val)),
     opaque |-> opaque,
     cas |-> cas]

\* PacketHeader::response_from_payload
PacketHeader_response_from_payload(opcode, status, opaque, cas, extras, key, val) ==
    [magic |-> "Request",
     opcode |-> opcode,
     key_len |-> AsU16(Len(key)),
     extras_len |-> AsU8(Extras_len(extras)),
     data_type |-> 0,
     vbucket_id_or_status |-> Status_as_u16(status),
     body_len |-> AsU32(Len(key) + Extras_len(extras) + Len(val)),
     opaque |-> opaque,
     cas |-> cas]

\* PacketHeader::request of src/src/binary/packet.rs: zeroed fields
binary_PacketHeader_request(opcode) ==
    [magic |-> "Request", opcode |-> opcode, key_len |-> 0, extras_len |-> 0,
     data_type |-> 0, vbucket_id_or_status |-> 0, body_len |-> 0,
     opaque |-> 0, cas |-> 0]

\* PacketHeader::response of src/src/binary/packet.rs: zeroed fields
binary_PacketHeader_response(opcode) ==
    [magic |-> "Response", opcode |-> opcode, key_len |-> 0, extras_len |-> 0,
     data_type |-> 0, vbucket_id_or_status |-> 0, body_len |-> 0,
     opaque |-> 0, cas |-> 0]

\* PacketHeader::parse with the opcode unwrapped instead of turned into an error
PacketHeader_parse_UnwrapOpcode(buf) ==
    IF Len(buf) < 1 THEN Panic
    ELSE IF ~Magic_from_u8(buf[1]).some THEN Err("InvalidData")
    ELSE IF Len(buf) < 2 THEN Panic
    ELSE IF ~Opcode_from_u8(buf[2]).some THEN Panic
    ELSE IF Len(buf) < 24 THEN Panic
    ELSE Ok([magic |-> Magic_from_u8(buf[1]).v,
             opcode |-> Opcode_from_u8(buf[2]).v,
             key_len |-> from_be_bytes(SubSeq(buf, 3, 4)),
             extras_len |-> from_be_bytes(SubSeq(buf, 5, 5)),
             data_type |-> from_be_bytes(SubSeq(buf, 6, 6)),
             vbucket_id_or_status |-> from_be_bytes(SubSeq(buf, 7, 8)),
             body_len |-> from_be_bytes(SubSeq(buf, 9, 12)),
             opaque |-> from_be_bytes(SubSeq(buf, 13, 16)),
             cas |-> from_be_bytes(SubSeq(buf, 17, 24))])

\* PacketHeader::parse that reads the opaque ahead of the body_len
PacketHeader_parse_OpaqueFirst(buf) ==
    IF Len(buf) < 1 THEN Panic
    ELSE IF ~Magic_from_u8(buf[1]).some THEN Err("InvalidData")
    ELSE IF Len(buf) < 2 THEN Panic
    ELSE IF ~Opcode_from_u8(buf[2]).some THEN Err("InvalidData")
    ELSE IF Len(buf) < PacketHeader_size THEN Panic
    ELSE Ok([magic |-> Magic_from_u8(buf[1]).v,
             opcode |-> Opcode_from_u8(buf[2]).v,
             key_len |-> from_be_bytes(SubSeq(buf, 3, 4)),
             extras_len |-> from_be_bytes(SubSeq(buf, 5, 5)),
             data_type |-> from_be_bytes(SubSeq(buf, 6, 6)),
             vbucket_id_or_status |-> from_be_bytes(SubSeq(buf, 7, 8)),
             body_len |-> from_be_bytes(SubSeq(buf, 13, 16)),
             opaque |-> from_be_bytes(SubSeq(buf, 9, 12)),
             cas |-> from_be_bytes(SubSeq(buf, 17, 24))])

\* PacketHeader::parse that reads vbucket_id_or_status least significant
\* byte first
PacketHeader_parse_StatusLittleEndian(buf) ==
    IF Len(buf) < 1 THEN Panic
    ELSE IF ~Magic_from_u8(buf[1]).some THEN Err("InvalidData")
    ELSE IF Len(buf) < 2 THEN Panic
    ELSE IF ~Opcode_from_u8(buf[2]).some THEN Err("InvalidData")
    ELSE IF Len(buf) < PacketHeader_size THEN Panic
    ELSE Ok([magic |-> Magic_from_u8(buf[1]).v,
             opcode |-> Opcode_from_u8(buf[2]).v,
             key_len |-> from_be_bytes(SubSeq(buf, 3, 4)),
             extras_len |-> from_be_bytes(SubSeq(buf, 5, 5)),
             data_type |-> from_be_bytes(SubSeq(buf, 6, 6)),
             vbucket_id_or_status |-> from_be_bytes(<< buf[8], buf[7] >>),
             body_len |-> from_be_bytes(SubSeq(buf, 9, 12)),
             opaque |-> from_be_bytes(SubSeq(buf, 13, 16)),
             cas |-> from_be_bytes(SubSeq(buf, 17, 24))])

\* PacketHeader::parse: Buf::get_uN panics when the buffer has too few bytes
\* left; the fields are read in the order of the struct literal
PacketHeader_parse(buf) ==
    IF Len(buf) < 1 THEN Panic
    ELSE IF ~Magic_from_u8(buf[1]).some THEN Err("InvalidData")
    ELSE IF Len(buf) < 2 THEN Panic
    ELSE IF ~Opcode_from_u8(buf[2]).some THEN Err("InvalidData")
    ELSE IF Len(buf) < PacketHeader_size THEN Panic
    ELSE Ok([magic |-> Magic_from_u8(buf[1]).v,
             opcode |-> Opcode_from_u8(buf[2]).v,
             key_len |-> from_be_bytes(SubSeq(buf, 3, 4)),
             extras_len |-> from_be_bytes(SubSeq(buf, 5, 5)),
             data_type |-> from_be_bytes(SubSeq(buf, 6, 6)),
             vbucket_id_or_status |-> from_be_bytes(SubSeq(buf, 7, 8)),
             body_len |-> from_be_bytes(SubSeq(buf, 9, 12)),
             opaque |-> from_be_bytes(SubSeq(buf, 13, 16)),
             cas |-> from_be_bytes(SubSeq(buf, 17, 24))])

\* AsyncOps::write_to of a header that writes the data type byte as zero
PacketHeader_write_to_async_DataTypeZero(h) ==
    << to_be_bytes(Magic_as_u8(h.magic), 1),
       to_be_bytes(Opcode_as_u8(h.opcode), 1),
       to_be_bytes(h.key_len, 2),
       to_be_bytes(h.extras_len, 1),
       to_be_bytes(0, 1),
       to_be_bytes(h.vbucket_id_or_status, 2),
       to_be_bytes(h.body_len, 4),
       to_be_bytes(h.opaque, 4),
       to_be_bytes(h.cas, 8) >>

\* <PacketHeader as AsyncOps>::write_to: the buffers handed to write_all, in order
PacketHeader_write_to_async(h) ==
    << to_be_bytes(Magic_as_u8(h.magic), 1),
       to_be_bytes(Opcode_as_u8(h.opcode), 1),
       to_be_bytes(h.key_len, 2),
       to_be_bytes(h.extras_len, 1),
       to_be_bytes(h.data_type, 1),
       to_be_bytes(h.vbucket_id_or_status, 2),
       to_be_bytes(h.body_len, 4),
       to_be_bytes(h.opaque, 4),
       to_be_bytes(h.cas, 8) >>

\* <PacketHeader as SyncOps>::write_to that writes extras_len ahead of key_len
PacketHeader_write_to_sync_ExtrasLenFirst(h) ==
    << << Magic_as_u8(h.magic) >>,
       << Opcode_as_u8(h.opcode) >>,
       << h.extras_len >>,
       write_u16_BE(h.key_len),
       << h.data_type >>,
       write_u16_BE(h.vbucket_id_or_status),
       write_u32_BE(h.body_len),
       write_u32_BE(h.opaque),
       write_u64_BE(h.cas) >>

\* <PacketHeader as SyncOps>::write_to: the buffers handed to write_all, in order
PacketHeader_write_to_sync(h) ==
    << << Magic_as_u8(h.magic) >>,
       << Opcode_as_u8(h.opcode) >>,
       write_u16_BE(h.key_len),
       << h.extras_len >>,
       << h.data_type >>,
       write_u16_BE(h.vbucket_id_or_status),
       write_u32_BE(h.body_len),
       write_u32_BE(h.opaque),
       write_u64_BE(h.cas) >>

---------------------------------------------------------------------------
(* struct Packet: src/src/packet.rs and src/src/binary/packet.rs *)

NoPkt == [tag |-> "NoPkt"]

\* Packet::request
Packet_request(opcode, vbucket_id, opaque, cas, extras, key, val) ==
    [header |-> [magic |-> "Request",
                 opcode |-> opcode,
                 key_len |-> AsU16(Len(key)),
                 extras_len |-> AsU8(Extras_len(extras)),
                 data_type |-> 0,
                 vbucket_id_or_status |-> vbucket_id,
                 body_len |-> AsU32(Len(key) + Extras_len(extras) + Len(val)),
                 opaque |-> opaque,
                 cas |-> cas],
     extras |-> extras, key |-> key, val |-> val]

\* Packet::response with the magic of a response
Packet_response_MagicResponse(opcode, status, opaque, cas, extras, key, val) ==
    [header |-> [magic |-> "Response",
                 opcode |-> opcode,
                 key_len |-> AsU16(Len(key)),
                 extras_len |-> AsU8(Extras_len(extras)),
                 data_type |-> 0,
                 vbucket_id_or_status |-> Status_as_u16(status),
                 body_len |-> AsU32(Len(key) + Extras_len(extras) + Len(val)),
                 opaque |-> opaque,
                 cas |-> cas],
     extras |-> extras, key |-> key, val |-> val]

\* Packet::response
Packet_response(opcode, status, opaque, cas, extras, key, val) ==
    [header |-> [magic |-> "Request",
                 opcode |-> opcode,
                 key_len |-> AsU16(Len(key)),
                 extras_len |-> AsU8(Extras_len(extras)),
                 data_type |-> 0,
                 vbucket_id_or_status |-> Status_as_u16(status),
                 body_len |-> AsU32(Len(key) + Extras_len(extras) + Len(val)),
                 opaque |-> opaque,
                 cas |-> cas],
     extras |-> extras, key |-> key, val |-> val]

\* Packet::new of src/src/packet.rs: the header is stored as given
Packet_new(header, extras, key, val) ==
    [header |-> header, extras |-> extras, key |-> key, val |-> val]

\* Packet::new of src/src/binary/packet.rs: the three lengths are set from
\* the payload
binary_Packet_new(header, extras, key, val) ==
    [header |-> [header EXCEPT
                    !.extras_len = AsU8(Extras_len(extras)),
                    !.key_len = AsU16(Len(key)),
                    !.body_len = AsU32(Len(key) + Extras_len(extras) + Len(val))],
     extras |-> extras, key |-> key, val |-> val]

\* Packet::is_request
Packet_is_request(p) == p.header.magic = "Request"

\* Packet::is_response
Packet_is_response(p) == p.header.magic = "Response"

\* Packet::status: debug_assert!(self.is_response()) when the build has
\* debug assertions, then Status::from_u16(..).unwrap()
Packet_status(p, debug_assertions) ==
    IF debug_assertions /\ p.header.magic # "Response" THEN Panic
    ELSE IF ~Status_from_u16(p.header.vbucket_id_or_status).some THEN Panic
    ELSE Ok(Status_from_u16(p.header.vbucket_id_or_status).v)

---------------------------------------------------------------------------
(* The writer W: the calls a write_to makes on it, and their failure. *)

WriteAll(d) == [op |-> "write_all", data |-> d]
Flush == [op |-> "flush", data |-> <<>>]

\* one write_all per buffer, in order
WriteAllEach(bufs) ==
    SubSeq([i \in 1..Len(bufs) |-> WriteAll(bufs[i])], 1, Len(bufs))

\* <Packet as SyncOps>::write_to: the calls made on w when none fails
Packet_write_to_sync(p) ==
    WriteAllEach(PacketHeader_write_to_sync(p.header))
        \o WriteAllEach(Extras_write_sync(p.extras))
        \o << WriteAll(p.key) >>
        \o << WriteAll(p.val) >>
        \o << Flush >>

\* <Packet as AsyncOps>::write_to without the final flush
Packet_write_to_async_NoFlush(p) ==
    WriteAllEach(PacketHeader_write_to_async(p.header))
        \o WriteAllEach(Extras_write(p.extras))
        \o << WriteAll(p.key) >>
        \o << WriteAll(p.val) >>

\* <Packet as AsyncOps>::write_to: the calls awaited on w when none fails
Packet_write_to_async(p) ==
    WriteAllEach(PacketHeader_write_to_async(p.header))
        \o WriteAllEach(Extras_write(p.extras))
        \o << WriteAll(p.key) >>
        \o << WriteAll(p.val) >>
        \o << Flush >>

\* <PacketRef as SyncOps>::write_to: the calls made on w when none fails
PacketRef_write_to_sync(p) ==
    WriteAllEach(PacketHeader_write_to_sync(p.header))
        \o WriteAllEach(Extras_write_sync(p.extras))
        \o << WriteAll(p.key) >>
        \o << WriteAll(p.val) >>

\* <PacketRef as AsyncOps>::write_to that leaves the extras out
PacketRef_write_to_async_NoExtras(p) ==
    WriteAllEach(PacketHeader_write_to_async(p.header))
        \o << WriteAll(p.key) >>
        \o << WriteAll(p.val) >>

\* <PacketRef as AsyncOps>::write_to: the calls awaited on w when none fails
PacketRef_write_to_async(p) ==
    WriteAllEach(PacketHeader_write_to_async(p.header))
        \o WriteAllEach(Extras_write(p.extras))
        \o << WriteAll(p.key) >>
        \o << WriteAll(p.val) >>

\* the `?` after every call on w: the calls before the failAt-th are made, the
\* failAt-th returns an error and write_to returns it; failAt = 0: none fails
RunWriter(calls, failAt) ==
    IF failAt = 0
    THEN [log |-> calls, res |-> Ok(<<>>)]
    ELSE [log |-> SubSeq(calls, 1, failAt - 1), res |-> Err("Other")]

RECURSIVE Written(_)
\* the bytes a Vec<u8> writer holds after the calls of log
Written(log) ==
    IF Len(log) = 0 THEN <<>>
    ELSE Written(SubSeq(log, 1, Len(log) - 1)) \o log[Len(log)].data

---------------------------------------------------------------------------
(* The reader R: a byte stream s, read from position pos. *)

\* a read that returns a partly filled buffer (the bytes that are left, then
\* zeroes) when fewer than n bytes are left
read_exact_PartlyFilled(s, pos, n, fail) ==
    IF fail THEN Err("Other")
    ELSE Ok([i \in 1..n |-> IF pos + i <= Len(s) THEN s[pos + i] ELSE 0])

\* Read::read_exact / AsyncReadExt::read_exact of n bytes: an error of the
\* transport (fail), or UnexpectedEof when fewer than n bytes are left
read_exact(s, pos, n, fail) ==
    IF fail THEN Err("Other")
    ELSE IF Len(s) - pos < n THEN Err("UnexpectedEof")
    ELSE Ok(SubSeq(s, pos + 1, pos + n))

\* what a read_from returns, the sizes of the reads it made on r, and the
\* number of bytes it took off r
ReadOutcome(res, reads, consumed) ==
    [res |-> res, reads |-> reads, consumed |-> consumed]

\* <PacketHeader as SyncOps>::read_from
PacketHeader_read_from_sync(s, fail) ==
    LET r == read_exact(s, 0, PacketHeader_size, fail)
    IN  IF r.tag = "Ok" THEN PacketHeader_parse(r.v) ELSE r

\* <PacketHeader as AsyncOps>::read_from
PacketHeader_read_from_async(s, fail) ==
    LET r == read_exact(s, 0, PacketHeader_size, fail)
    IN  IF r.tag = "Ok" THEN PacketHeader_parse(r.v) ELSE r

\* the body of Packet::read_from with a key taken from the start of the body
\* buffer instead of from behind the extras
Packet_read_body_KeyAtStart(s, h, failAt) ==
    LET body == read_exact(s, PacketHeader_size, h.body_len, failAt = 2)
        reads == << PacketHeader_size, h.body_len >>
        all == PacketHeader_size + h.body_len
    IN  IF body.tag # "Ok" THEN ReadOutcome(body, reads, PacketHeader_size)
        ELSE IF h.extras_len > h.body_len THEN ReadOutcome(Panic, reads, all)
        ELSE LET e == Extras_parse(h.opcode, SubSeq(body.v, 1, h.extras_len))
             IN  IF e.tag # "Ok" THEN ReadOutcome(e, reads, all)
                 ELSE IF h.key_len > h.body_len - h.extras_len
                 THEN ReadOutcome(Panic, reads, all)
                 ELSE ReadOutcome(
                        Ok([header |-> h,
                            extras |-> e.v,
                            key |-> SubSeq(body.v, 1, h.key_len),
                            val |-> SubSeq(body.v, h.extras_len + h.key_len + 1,
                                           h.body_len)]),
                        reads, all)

\* the body of Packet::read_from after the header is read: one read_exact of
\* body_len bytes, then BytesMut::split_to (which panics beyond the length)
Packet_read_body(s, h, failAt) ==
    LET body == read_exact(s, PacketHeader_size, h.body_len, failAt = 2)
        reads == << PacketHeader_size, h.body_len >>
        all == PacketHeader_size + h.body_len
    IN  IF body.tag # "Ok" THEN ReadOutcome(body, reads, PacketHeader_size)
        ELSE IF h.extras_len > h.body_len THEN ReadOutcome(Panic, reads, all)
        ELSE LET e == Extras_parse(h.opcode, SubSeq(body.v, 1, h.extras_len))
             IN  IF e.tag # "Ok" THEN ReadOutcome(e, reads, all)
                 ELSE IF h.key_len > h.body_len - h.extras_len
                 THEN ReadOutcome(Panic, reads, all)
                 ELSE ReadOutcome(
                        Ok([header |-> h,
                            extras |-> e.v,
                            key |-> SubSeq(body.v, h.extras_len + 1,
                                           h.extras_len + h.key_len),
                            val |-> SubSeq(body.v, h.extras_len + h.key_len + 1,
                                           h.body_len)]),
                        reads, all)

\* <Packet as SyncOps>::read_from; failAt: the read on r that the transport
\* fails (0: none)
Packet_read_from_sync(s, failAt) ==
    LET h == PacketHeader_read_from_sync(s, failAt = 1)
    IN  IF h.tag # "Ok"
        THEN ReadOutcome(h, << PacketHeader_size >>,
                         IF failAt # 1 /\ Len(s) >= PacketHeader_size
                         THEN PacketHeader_size ELSE 0)
        ELSE Packet_read_body(s, h.v, failAt)

\* <Packet as AsyncOps>::read_from that awaits one read_exact for each of the
\* extras, the key and the value
Packet_read_from_async_SeparateReads(s, failAt) ==
    LET h == PacketHeader_read_from_async(s, failAt = 1)
        hs == PacketHeader_size
    IN  IF h.tag # "Ok"
        THEN ReadOutcome(h, << hs >>, IF failAt # 1 /\ Len(s) >= hs THEN hs ELSE 0)
        ELSE LET one == Packet_read_body(s, h.v, failAt)
                 el == h.v.extras_len
                 kl == h.v.key_len
             IN  ReadOutcome(one.res, << hs, el, kl, h.v.body_len - el - kl >>,
                             one.consumed)

\* <Packet as AsyncOps>::read_from
Packet_read_from_async(s, failAt) ==
    LET h == PacketHeader_read_from_async(s, failAt = 1)
    IN  IF h.tag # "Ok"
        THEN ReadOutcome(h, << PacketHeader_size >>,
                         IF failAt # 1 /\ Len(s) >= PacketHeader_size
                         THEN PacketHeader_size ELSE 0)
        ELSE Packet_read_body(s, h.v, failAt)

\* Packet::read_sync and Packet::read of src/src/binary/packet.rs: the body
\* buffer is split first and each region is filled by its own read_exact
binary_Packet_read(s, failAt) ==
    LET hb == read_exact(s, 0, PacketHeader_size, failAt = 1)
        h == IF hb.tag = "Ok" THEN PacketHeader_parse(hb.v) ELSE hb
    IN  IF h.tag # "Ok"
        THEN ReadOutcome(h, << PacketHeader_size >>,
                         IF hb.tag = "Ok" THEN PacketHeader_size ELSE 0)
        ELSE LET el == h.v.extras_len
                 kl == h.v.key_len
                 bl == h.v.body_len
                 hs == PacketHeader_size
             IN  IF el > bl THEN ReadOutcome(Panic, << hs >>, hs)
                 ELSE LET eb == read_exact(s, hs, el, failAt = 2)
                          e == IF eb.tag = "Ok"
                               THEN Extras_parse(h.v.opcode, eb.v) ELSE eb
                      IN  IF e.tag # "Ok"
                          THEN ReadOutcome(e, << hs, el >>,
                                           IF eb.tag = "Ok" THEN hs + el ELSE hs)
                          ELSE IF kl > bl - el
                          THEN ReadOutcome(Panic, << hs, el >>, hs + el)
                          ELSE LET kb == read_exact(s, hs + el, kl, failAt = 3)
                                   vb == read_exact(s, hs + el + kl,
                                                    bl - el - kl, failAt = 4)
                               IN  IF kb.tag # "Ok"
                                   THEN ReadOutcome(kb, << hs, el, kl >>, hs + el)
                                   ELSE IF vb.tag # "Ok"
                                   THEN ReadOutcome(vb, << hs, el, kl, bl - el - kl >>,
                                                    hs + el + kl)
                                   ELSE ReadOutcome(
                                          Ok([header |-> h.v, extras |-> e.v,
                                              key |-> kb.v, val |-> vb.v]),
                                          << hs, el, kl, bl - el - kl >>, hs + bl)

---------------------------------------------------------------------------
(* Status::ok_or and ProtoError: src/src/code.rs, src/src/error.rs *)

\* ProtoError::from_status that loses the detail
ProtoError_from_status_NoDetail(status, detail) ==
    [status |-> status, desc |-> Status_desc(status), detail |-> None]

\* ProtoError::from_status
ProtoError_from_status(status, detail) ==
    [status |-> status, desc |-> Status_desc(status), detail |-> detail]

\* Status::ok_or: Ok(()) or Err(Error::Proto(..))
Status_ok_or(status, detail) ==
    IF status = "NoError" THEN Ok(<<>>)
    ELSE [tag |-> "Err", kind |-> "Proto",
          error |-> ProtoError_from_status(status, detail)]

---------------------------------------------------------------------------
(* The inputs the operations are called with. *)

\* n bytes, no two neighbours equal
Fill(n) == SubSeq([i \in 1..n |-> i % 251], 1, n)

\* the first n bytes of "barbar.."
ValBytes(n) == SubSeq([i \in 1..n |-> <<98, 97, 114>>[((i - 1) % 3) + 1]], 1, n)

\* n bytes whose leading u32 and u64 fields stay below 2^31
LongBytes(n) ==
    SubSeq([i \in 1..n |-> IF i > 20 \/ i % 8 \in {7, 0} THEN i % 251 ELSE 0], 1, n)

\* "foo"
KeyFoo == <<102, 111, 111>>

SmallKeys == { <<>>, KeyFoo }
\* keys at and beyond the range of the u16 key_len
BigKeys == { Fill(65535), Fill(65536), Fill(65537) }
Vals == { ValBytes(0), ValBytes(MaxValLen) }

ExtrasSamples ==
    { Extras_None,
      Extras_Unknown(<<>>),
      Extras_Unknown(<<1, 2>>),
      Extras_Unknown(LongBytes(255)),
      Extras_Unknown(LongBytes(256)),
      Extras_Store(0, 0),
      Extras_Store(16909060, 1234),
      Extras_Counter(1, 16909060, 1234),
      Extras_Flush(1234),
      Extras_Verbosity(2),
      Extras_Touch(1234),
      Extras_Get(16909060) }

\* the opcodes of every arm of the match in Extras::parse but the last
MappedOpcodes ==
    StoreOpcodes \cup GetOpcodes \cup CounterOpcodes \cup VerbosityOpcodes
        \cup TouchOpcodes \cup FlushOpcodes

\* the opcodes a packet with extras e is built with: one of its class, and
\* Set
BuildOpcodes(e) ==
    { CASE e.tag = "None" -> "Delete"
        [] e.tag = "Unknown" -> "FlushQ"
        [] e.tag = "Store" -> "Set"
        [] e.tag = "Counter" -> "Increment"
        [] e.tag = "Flush" -> "Flush"
        [] e.tag = "Verbosity" -> "Verbosity"
        [] e.tag = "Touch" -> "Touch"
        [] e.tag = "Get" -> "GetK",
      "Set" }

\* n bytes of a raw extras region for opcode o: any bytes where no number is
\* read from them, and bytes whose u32 / u64 fields stay below 2^31 elsewhere
RawBuf(o, n) ==
    IF o \in CounterOpcodes
    THEN SubSeq([i \in 1..n |-> IF i % 8 \in {7, 0} \/ i > 18 THEN i ELSE 0], 1, n)
    ELSE IF o \in MappedOpcodes
    THEN SubSeq([i \in 1..n |-> IF i % 4 = 1 THEN 0 ELSE i], 1, n)
    ELSE Fill(n)

Payload(o, e, k, v) == [opcode |-> o, extras |-> e, key |-> k, val |-> v]

Payloads ==
    UNION { { Payload(o, e, k, v) : o \in BuildOpcodes(e), k \in SmallKeys, v \in Vals }
            : e \in ExtrasSamples }

\* payloads whose key is at or beyond the range of key_len (given to the
\* header builders)
BigPayloads ==
    { Payload("Set", e, k, <<>>) : e \in {Extras_None, Extras_Store(0, 0)},
                                   k \in BigKeys }

\* header values of any content (the fields of PacketHeader are public)
HeaderSamples ==
    [ magic : Magic,
      opcode : {"Get", "SetQ", "TabCheckPointEnd"},
      key_len : {0, 258, 65535},
      extras_len : {0, 255},
      data_type : {0, 7},
      vbucket_id_or_status : {0, 513},
      body_len : {0, 2147483647},
      opaque : {16909060},
      cas : {0, 84281096} ]

\* <<vbucket_id, opaque, cas>> of a request
RequestCorr == { <<0, 0, 0>>, <<258, 16909060, 84281096>> }
\* <<status, opaque, cas>> of a response
ResponseCorr == { <<"NoError", 0, 0>>, <<"KeyNotFound", 16909060, 84281096>> }

NoRet == [tag |-> "NoRet"]
NoCall == [fn |-> "none"]
NoHdr == [tag |-> "NoHdr"]
NoBuilt == [by |-> "none"]
NoConn == [kind |-> "none"]

---------------------------------------------------------------------------
(* The state machine: a constructor call, then a write of the packet to a  *)
(* writer and a read of the written bytes; a peer's bytes and a read of    *)
(* them; and calls of the stand-alone functions.                           *)

Init ==
    /\ built = NoBuilt
    /\ hdr = NoHdr
    /\ pkt = NoPkt
    /\ chan = <<>>
    /\ wret = NoRet
    /\ wire = <<>>
    /\ rret = NoRet
    /\ refw = NoRet
    /\ call = NoCall
    /\ ret = NoRet
    /\ conn = NoConn

\* nothing was called yet: every run is one constructor call with what
\* follows it, one peer message with its read, or one stand-alone call
Idle == built = NoBuilt /\ call = NoCall /\ conn = NoConn

\* a constructor call touches no writer or reader
FreshIO == UNCHANGED <<chan, wret, wire, rret, refw, call, ret, conn>>

Built(by, p, c, header) ==
    [by |-> by, opcode |-> p.opcode, extras |-> p.extras, key |-> p.key,
     val |-> p.val, corr |-> c, header |-> header]

DoPacketRequest ==
    /\ Idle
    /\ \E p \in Payloads, c \in RequestCorr :
            /\ built' = Built("Packet::request", p, c, NoHdr)
            /\ pkt' = Packet_request(p.opcode, c[1], c[2], c[3], p.extras, p.key, p.val)
            /\ hdr' = pkt'.header
            /\ FreshIO

DoPacketResponse ==
    /\ Idle
    /\ \E p \in Payloads, c \in ResponseCorr :
            /\ built' = Built("Packet::response", p, c, NoHdr)
            /\ pkt' = Packet_response(p.opcode, c[1], c[2], c[3], p.extras, p.key, p.val)
            /\ hdr' = pkt'.header
            /\ FreshIO

DoRequestFromPayload ==
    /\ Idle
    /\ \E p \in Payloads \cup BigPayloads, c \in RequestCorr :
            /\ built' = Built("PacketHeader::request_from_payload", p, c, NoHdr)
            /\ hdr' = PacketHeader_request_from_payload(
                          p.opcode, c[1], c[2], c[3], p.extras, p.key, p.val)
            /\ pkt' = NoPkt
            /\ FreshIO

DoResponseFromPayload ==
    /\ Idle
    /\ \E p \in Payloads \cup BigPayloads, c \in ResponseCorr :
            /\ built' = Built("PacketHeader::response_from_payload", p, c, NoHdr)
            /\ hdr' = PacketHeader_response_from_payload(
                          p.opcode, c[1], c[2], c[3], p.extras, p.key, p.val)
            /\ pkt' = NoPkt
            /\ FreshIO

\* the headers handed to Packet::new: a zeroed request header, and
\* a header whose lengths were computed from the same payload
NewHeaders(p) ==
    { binary_PacketHeader_request(p.opcode),
      PacketHeader_request_from_payload(p.opcode, 258, 16909060, 84281096,
                                        p.extras, p.key, p.val) }

DoPacketNew ==
    /\ Idle
    /\ \E p \in Payloads :
            \E h \in NewHeaders(p) :
                /\ built' = Built("Packet::new", p, <<>>, h)
                /\ pkt' = Packet_new(h, p.extras, p.key, p.val)
                /\ hdr' = pkt'.header
                /\ FreshIO

DoBinaryPacketNew ==
    /\ Idle
    /\ \E p \in Payloads :
            \E h \in NewHeaders(p) :
                /\ built' = Built("binary::Packet::new", p, <<>>, h)
                /\ pkt' = binary_Packet_new(h, p.extras, p.key, p.val)
                /\ hdr' = pkt'.header
                /\ FreshIO

\* packet.write_to(&mut w) on a fresh writer; the reader is then given the
\* bytes the writer holds
Write(mode, calls) ==
    /\ pkt # NoPkt
    /\ wret = NoRet
    /\ call = NoCall
    /\ \E failAt \in 0..Len(calls) :
          LET out == RunWriter(calls, failAt)
          IN  /\ chan' = out.log
              /\ wret' = [mode |-> mode, res |-> out.res]
              /\ wire' = Written(out.log)
    /\ UNCHANGED <<built, hdr, pkt, rret, refw, call, ret, conn>>

DoWriteSync == Write("sync", Packet_write_to_sync(pkt))

DoWriteAsync == Write("async", Packet_write_to_async(pkt))

\* PacketRef::new(&pkt.header, &pkt.extras, &pkt.key, &pkt.val).write_to(&mut w2)
\* on a second fresh writer, after the packet itself was written; the
\* transport fails no call, the first or the last
RefWrite(mode, calls) ==
    /\ pkt # NoPkt
    /\ wret # NoRet
    /\ wret.res.tag = "Ok"
    /\ rret = NoRet
    /\ refw = NoRet
    /\ call = NoCall
    /\ \E failAt \in {0, 1, Len(calls)} :
          LET out == RunWriter(calls, failAt)
          IN  refw' = [mode |-> mode, res |-> out.res, log |-> out.log]
    /\ UNCHANGED <<built, hdr, pkt, chan, wret, wire, rret, call, ret, conn>>

DoRefWriteSync == RefWrite("sync", PacketRef_write_to_sync(pkt))

DoRefWriteAsync == RefWrite("async", PacketRef_write_to_async(pkt))

\* the raw 24 bytes of a header on the wire (the layout at the top of
\* src/src/packet.rs)
RawHeader(magic, opcode, key_len, extras_len, data_type, status, body_len, opaque, cas) ==
    << magic, opcode >> \o to_be_bytes(key_len, 2) \o << extras_len, data_type >>
        \o to_be_bytes(status, 2) \o to_be_bytes(body_len, 4)
        \o to_be_bytes(opaque, 4) \o to_be_bytes(cas, 8)

\* <<magic byte, opcode byte>> a peer sends: Response/Set, Response/Flush,
\* Response/NoOp, Request/NoOp, a bad magic, a bad opcode
PeerHeads == { <<129, 1>>, <<129, 8>>, <<129, 10>>, <<128, 10>>, <<127, 10>>, <<129, 31>> }

\* a peer puts a header and `avail` body bytes ahead of the reader; the
\* lengths of the header need not agree with each other or with avail
DoPeerSend ==
    /\ Idle
    /\ \E mo \in PeerHeads, el \in {0, 4, 8}, kl \in {0, 1}, bl \in 0..MaxBodyLen :
            \E avail \in {bl - 1, bl, bl + 1} \cap Nat :
                /\ built' = [by |-> "peer", magic |-> mo[1], opcode |-> mo[2],
                             extras_len |-> el, key_len |-> kl, body_len |-> bl,
                             avail |-> avail]
                /\ wire' = RawHeader(mo[1], mo[2], kl, el, 0, 0, bl, 16909060, 1) \o Fill(avail)
                /\ UNCHANGED <<hdr, pkt, chan, wret, rret, refw, call, ret, conn>>

\* status values of a header a peer sends: three of the table, and 0x000a,
\* 0x0087 and 0xffff that are not in it
PeerStatuses == {0, 1, 134, 10, 135, 65535}

\* a peer sends a header without a body, as a response or as a request, with
\* a status value of its choice
DoPeerSendStatus ==
    /\ Idle
    /\ \E m \in {128, 129}, st \in PeerStatuses :
            /\ built' = [by |-> "peer_status", magic |-> m, status |-> st]
            /\ wire' = RawHeader(m, 0, 0, 0, 0, st, 0, 16909060, 1)
            /\ UNCHANGED <<hdr, pkt, chan, wret, rret, refw, call, ret, conn>>

\* the channel of a peer ends within the header: n bytes of it arrive
DoPeerSendCut ==
    /\ Idle
    /\ \E mo \in {<<129, 1>>, <<127, 10>>}, n \in {0, 1, 2, 23} :
            /\ built' = [by |-> "peer_cut", n |-> n]
            /\ wire' = SubSeq(RawHeader(mo[1], mo[2], 1, 0, 0, 0, 3, 16909060, 1), 1, n)
            /\ UNCHANGED <<hdr, pkt, chan, wret, rret, refw, call, ret, conn>>

\* Packet::read_from(&mut r) on the bytes a successful write left, or on the
\* bytes a peer sent
CanRead ==
    /\ rret = NoRet
    /\ refw = NoRet
    /\ call = NoCall
    /\ \/ built.by \in {"peer", "peer_cut", "peer_status"}
       \/ wret # NoRet /\ wret.res.tag = "Ok"

DoReadSync ==
    /\ CanRead
    /\ \E failAt \in 0..2 :
          rret' = [impl |-> "sync", failAt |-> failAt,
                   out |-> Packet_read_from_sync(wire, failAt)]
    /\ UNCHANGED <<built, hdr, pkt, chan, wret, wire, refw, call, ret, conn>>

DoReadAsync ==
    /\ CanRead
    /\ \E failAt \in 0..2 :
          rret' = [impl |-> "async", failAt |-> failAt,
                   out |-> Packet_read_from_async(wire, failAt)]
    /\ UNCHANGED <<built, hdr, pkt, chan, wret, wire, refw, call, ret, conn>>

DoBinaryRead ==
    /\ CanRead
    /\ \E failAt \in 0..4 :
          rret' = [impl |-> "binary", failAt |-> failAt,
                   out |-> binary_Packet_read(wire, failAt)]
    /\ UNCHANGED <<built, hdr, pkt, chan, wret, wire, refw, call, ret, conn>>

\* no constructor call, writer or reader is involved in a stand-alone call
FreshPacket == UNCHANGED <<built, hdr, pkt, chan, wret, wire, rret, refw, conn>>

\* extras.write_sync(&mut buf) into an empty Vec<u8>
DoExtrasWriteSync ==
    /\ Idle
    /\ \E e \in ExtrasSamples :
            /\ call' = [fn |-> "Extras::write_sync", extras |-> e]
            /\ ret' = Ok(Written(WriteAllEach(Extras_write_sync(e))))
            /\ FreshPacket

\* extras.write(&mut buf).await into an empty Vec<u8>
DoExtrasWrite ==
    /\ Idle
    /\ \E e \in ExtrasSamples :
            /\ call' = [fn |-> "Extras::write", extras |-> e]
            /\ ret' = Ok(Written(WriteAllEach(Extras_write(e))))
            /\ FreshPacket

\* Extras::parse(opcode, &buf) of the buffer just written
DoExtrasParseWritten ==
    /\ call.fn \in {"Extras::write_sync", "Extras::write"}
    /\ \E o \in Opcode :
          /\ call' = [fn |-> "Extras::parse", opcode |-> o, buf |-> ret.v,
                      written |-> TRUE, extras |-> call.extras]
          /\ ret' = Extras_parse(o, ret.v)
    /\ FreshPacket

\* Extras::parse(opcode, &buf) of any buffer
DoExtrasParse ==
    /\ Idle
    /\ \E o \in Opcode, n \in (0..MaxRawLen) \cup {4, 7, 8, 12, 19, 20, 21} :
            /\ call' = [fn |-> "Extras::parse", opcode |-> o, buf |-> RawBuf(o, n),
                        written |-> FALSE, extras |-> Extras_None]
            /\ ret' = Extras_parse(o, RawBuf(o, n))
            /\ FreshPacket

\* PacketHeader::parse(&buf): a header of the wire, cut or extended to n bytes
DoHeaderParse ==
    /\ Idle
    /\ \E m \in {0, 127, 128, 129, 130, 255},
           o \in {0, 1, 30, 31, 34, 35, 47, 48, 71, 72, 255},
           n \in {0, 1, 2, 23, 24, 25} :
            LET buf == SubSeq(RawHeader(m, o, 3, 8, 0, 1, 14, 16909060, 84281096) \o <<7>>,
                              1, n)
            IN  /\ call' = [fn |-> "PacketHeader::parse", buf |-> buf]
                /\ ret' = PacketHeader_parse(buf)
                /\ FreshPacket

\* SyncOps::write_to(&header, &mut buf) into an empty Vec<u8>
DoHeaderWriteSync ==
    /\ Idle
    /\ \E h \in HeaderSamples :
            /\ call' = [fn |-> "PacketHeader::write_to", mode |-> "sync", header |-> h]
            /\ ret' = Ok(Written(WriteAllEach(PacketHeader_write_to_sync(h))))
            /\ FreshPacket

\* AsyncOps::write_to(&header, &mut buf).await into an empty Vec<u8>
DoHeaderWriteAsync ==
    /\ Idle
    /\ \E h \in HeaderSamples :
            /\ call' = [fn |-> "PacketHeader::write_to", mode |-> "async", header |-> h]
            /\ ret' = Ok(Written(WriteAllEach(PacketHeader_write_to_async(h))))
            /\ FreshPacket

\* PacketHeader::request(opcode) of src/src/binary/packet.rs
DoBinaryHeaderRequest ==
    /\ Idle
    /\ \E o \in Opcode :
            /\ call' = [fn |-> "binary::PacketHeader::request", opcode |-> o]
            /\ ret' = binary_PacketHeader_request(o)
            /\ FreshPacket

\* PacketHeader::response(opcode) of src/src/binary/packet.rs
DoBinaryHeaderResponse ==
    /\ Idle
    /\ \E o \in Opcode :
            /\ call' = [fn |-> "binary::PacketHeader::response", opcode |-> o]
            /\ ret' = binary_PacketHeader_response(o)
            /\ FreshPacket

\* the Option<String> details
Details == { None, Some(""), Some("key foo") }

\* status.ok_or(detail)
DoOkOr ==
    /\ Idle
    /\ \E s \in Status, d \in Details :
            /\ call' = [fn |-> "Status::ok_or", status |-> s, detail |-> d]
            /\ ret' = Status_ok_or(s, d)
            /\ FreshPacket

---------------------------------------------------------------------------
(* The client: src/src/client/mod.rs, and the operations of the traits of  *)
(* src/src/client/async.rs as section 4.5 of the specification describes   *)
(* them (their implementation, client/async_impl.rs, is not among the      *)
(* sources).  The peer is a conforming server.                             *)

\* gen_opaque(): fastrand::u32(..) returns any u32; these are the values a
\* call returns in the model
gen_opaque == {7, 8, 2147483647}

\* discard_packet(_: Packet) {}: the packet is dropped and () returned
discard_packet(p) == <<>>

\* the opcodes of the quiet requests a batch is made of
QuietOpcodes == {"SetQ", "AddQ", "ReplaceQ", "DeleteQ", "IncrementQ",
                 "DecrementQ", "AppendQ", "PrependQ"}

\* the request of set_noreply("foo", "bar", 0, 0) and the request of noop()
QuietRequest(opaque) ==
    Packet_request("SetQ", 0, opaque, 0, Extras_Store(0, 0), KeyFoo, ValBytes(3))
NoOpRequest(opaque) ==
    Packet_request("NoOp", 0, opaque, 0, Extras_None, <<>>, <<>>)

RECURSIVE WriteEach(_)
\* the calls on the connection's writer of write_to for each packet in turn
WriteEach(ps) ==
    IF Len(ps) = 0 THEN <<>>
    ELSE Packet_write_to_async(Head(ps)) \o WriteEach(Tail(ps))

RECURSIVE ReadEach(_)
\* the packets the peer reads off the bytes it was sent
ReadEach(s) ==
    IF Len(s) = 0 THEN <<>>
    ELSE LET out == Packet_read_from_sync(s, 0)
         IN  IF out.res.tag # "Ok" THEN <<>>
             ELSE << out.res.v >> \o ReadEach(SubSeq(s, out.consumed + 1, Len(s)))

\* the bytes of a response of the peer to req: the opcode and the opaque of
\* req, a status, and a value
PeerResponse(req, status, val) ==
    RawHeader(129, Opcode_as_u8(req.header.opcode), 0, 0, 0,
              Status_as_u16(status), Len(val), req.header.opaque, 0) \o val

RECURSIVE PeerAnswers(_, _, _)
\* a conforming peer answers the requests from the i-th on in their order: a
\* quiet request only when it fails (failed: the indices of those), any
\* other request always
PeerAnswers(reqs, i, failed) ==
    IF i > Len(reqs) THEN <<>>
    ELSE ( IF reqs[i].header.opcode \in QuietOpcodes
           THEN IF i \in failed
                THEN PeerResponse(reqs[i], "ItemNotStored", <<78, 111>>)
                ELSE <<>>
           ELSE PeerResponse(reqs[i], "NoError", <<>>) )
         \o PeerAnswers(reqs, i + 1, failed)

\* the issuer writes n quiet requests and then one NoOp, each with an opaque
\* of gen_opaque()
DoQuietBatch ==
    /\ Idle
    /\ \E n \in 1..MaxBatch :
          \E ops \in [1..(n + 1) -> gen_opaque] :
            LET reqs == [i \in 1..(n + 1) |->
                            IF i <= n THEN QuietRequest(ops[i]) ELSE NoOpRequest(ops[i])]
            IN  conn' = [kind |-> "batch", state |-> "written", n |-> n,
                         reqs |-> reqs, sent |-> Written(WriteEach(reqs)),
                         failed |-> {}, pos |-> 0, seen |-> <<>>, dropped |-> <<>>,
                         result |-> NoRet]
    /\ UNCHANGED <<built, hdr, pkt, chan, wret, wire, rret, refw, call, ret>>

\* the peer reads the requests, fails any of the quiet ones, and answers
DoPeerAnswer ==
    /\ conn.kind = "batch"
    /\ conn.state = "written"
    /\ \E failed \in SUBSET (1..conn.n) :
          /\ wire' = PeerAnswers(ReadEach(conn.sent), 1, failed)
          /\ conn' = [conn EXCEPT !.state = "answered", !.failed = failed]
    /\ UNCHANGED <<built, hdr, pkt, chan, wret, rret, refw, call, ret>>

\* one turn of the issuer's read loop: read a packet; the NoOp response ends
\* the loop, any other response is discarded
DoReadLoop ==
    /\ conn.kind = "batch"
    /\ conn.state = "answered"
    /\ \E failAt \in 0..2 :
          LET out == Packet_read_from_async(SubSeq(wire, conn.pos + 1, Len(wire)), failAt)
          IN  IF out.res.tag # "Ok"
              THEN conn' = [conn EXCEPT !.state = "failed", !.result = out.res]
              ELSE IF out.res.v.header.opcode = "NoOp"
              THEN conn' = [conn EXCEPT !.state = "done",
                                        !.pos = @ + out.consumed,
                                        !.seen = Append(@, out.res.v),
                                        !.result = Ok(<<>>)]
              ELSE conn' = [conn EXCEPT !.pos = @ + out.consumed,
                                        !.seen = Append(@, out.res.v),
                                        !.dropped = Append(@, discard_packet(out.res.v))]
    /\ UNCHANGED <<built, hdr, pkt, chan, wret, wire, rret, refw, call, ret>>

\* enum AuthResponse
AuthResponse_Continue(b) == [tag |-> "Continue", challenge |-> b]
AuthResponse_Succeeded == [tag |-> "Succeeded"]
AuthResponse_Failed == [tag |-> "Failed"]

\* the mechanisms a caller asks for (as key bytes: "PLAIN", "CRAM", "X"),
\* and the ones the peer supports
Mechanisms == { <<80, 76, 65, 73, 78>>, <<67, 82, 65, 77>>, <<88>> }
SupportedMechanisms == { <<80, 76, 65, 73, 78>>, <<67, 82, 65, 77>> }

\* the requests of auth_start(mech, init) and auth_continue(mech, data)
AuthRequest(opcode, mech, data) ==
    Packet_request(opcode, 0, 7, 0, Extras_None, mech, data)

\* what auth_start / auth_continue return for the response they read:
\* AuthenticationContinue maps to Continue(challenge), NoError to Succeeded,
\* AuthenticationError to Failed; any other status goes through ok_or
AuthResponseOf(resp) ==
    LET st == Packet_status(resp, TRUE)
    IN  IF st.tag # "Ok" THEN st
        ELSE CASE st.v = "AuthenticationContinue" -> Ok(AuthResponse_Continue(resp.val))
               [] st.v = "NoError" -> Ok(AuthResponse_Succeeded)
               [] st.v = "AuthenticationError" -> Ok(AuthResponse_Failed)
               [] OTHER -> Status_ok_or(st.v, None)

\* the state of the handshake after a call that returned r
AuthStateAfter(state, r) ==
    IF r.tag # "Ok" THEN state
    ELSE CASE r.v.tag = "Continue" -> "Continuing"
           [] r.v.tag = "Succeeded" -> "Authenticated"
           [] r.v.tag = "Failed" -> "Failed"

\* the statuses a conforming peer answers an authentication request with,
\* having sent `challenges` challenges so far
AuthStatuses(mech, challenges) ==
    IF mech \notin SupportedMechanisms THEN {"AuthenticationError"}
    ELSE {"NoError", "AuthenticationError"}
            \cup (IF challenges < MaxChallenges
                  THEN {"AuthenticationContinue"} ELSE {})

\* auth_start(mech, init): the handshake leaves Unauthenticated, the request
\* is written
DoAuthStart ==
    /\ Idle
    /\ \E mech \in Mechanisms :
          conn' = [kind |-> "auth", phase |-> "sent", state |-> "Continuing",
                   hist |-> << "Unauthenticated", "Continuing" >>, mech |-> mech,
                   call |-> "auth_start", challenges |-> 0,
                   sent |-> Written(Packet_write_to_async(
                                AuthRequest("SASLAuth", mech, <<0>>))),
                   status |-> "none", result |-> NoRet]
    /\ UNCHANGED <<built, hdr, pkt, chan, wret, wire, rret, refw, call, ret>>

\* auth_continue(mech, data) after a Continue: the next request is written
DoAuthContinue ==
    /\ conn.kind = "auth"
    /\ conn.phase = "returned"
    /\ conn.state = "Continuing"
    /\ conn' = [conn EXCEPT !.phase = "sent", !.call = "auth_continue",
                            !.sent = Written(Packet_write_to_async(
                                        AuthRequest("SASLStep", conn.mech, <<1>>))),
                            !.status = "none", !.result = NoRet]
    /\ UNCHANGED <<built, hdr, pkt, chan, wret, wire, rret, refw, call, ret>>

\* the peer reads the request (one it can read) and answers it
DoAuthPeer ==
    /\ conn.kind = "auth"
    /\ conn.phase = "sent"
    /\ Len(ReadEach(conn.sent)) = 1
    /\ LET reqs == ReadEach(conn.sent)
       IN  \E st \in AuthStatuses(reqs[1].key, conn.challenges) :
              /\ wire' = PeerResponse(reqs[1], st,
                                      IF st = "AuthenticationContinue"
                                      THEN << 99, conn.challenges >> ELSE <<>>)
              /\ conn' = [conn EXCEPT !.phase = "answered", !.status = st,
                                      !.challenges =
                                          IF st = "AuthenticationContinue"
                                          THEN @ + 1 ELSE @]
    /\ UNCHANGED <<built, hdr, pkt, chan, wret, rret, refw, call, ret>>

\* the call reads the response and returns
DoAuthRead ==
    /\ conn.kind = "auth"
    /\ conn.phase = "answered"
    /\ \E failAt \in 0..2 :
          LET out == Packet_read_from_async(wire, failAt)
              r == IF out.res.tag = "Ok" THEN AuthResponseOf(out.res.v) ELSE out.res
              next == AuthStateAfter(conn.state, r)
          IN  conn' = [conn EXCEPT !.phase = IF out.res.tag = "Ok"
                                             THEN "returned" ELSE "broken",
                                   !.state = next,
                                   !.hist = Append(@, next),
                                   !.result = r]
    /\ UNCHANGED <<built, hdr, pkt, chan, wret, wire, rret, refw, call, ret>>

\* the keys "a", "b", "c", and what the peer stores under a key it has:
\* <<value, flags>>
MultiKeys == { <<97>>, <<98>>, <<99>> }
StoredUnder(key) == << <<118>> \o key, key[1] + 256 >>

\* the request get_multi writes for one key
GetKQRequest(key, opaque) ==
    Packet_request("GetKQ", 0, opaque, 0, Extras_None, key, <<>>)

\* the bytes of the peer's response to a GetKQ for a key it has: the flags
\* as extras, the key, the value
PeerHit(req) ==
    LET st == StoredUnder(req.key)
    IN  RawHeader(129, Opcode_as_u8(req.header.opcode), Len(req.key), 4, 0, 0,
                  4 + Len(req.key) + Len(st[1]), req.header.opaque, 0)
            \o to_be_bytes(st[2], 4) \o req.key \o st[1]

RECURSIVE PeerGets(_, _, _)
\* a conforming peer answers the requests of a get_multi from the i-th on:
\* a GetKQ for a key it has with the entry, a GetKQ for a key it lacks with
\* nothing, the NoOp with its response
PeerGets(reqs, i, present) ==
    IF i > Len(reqs) THEN <<>>
    ELSE ( IF reqs[i].header.opcode = "NoOp"
           THEN PeerResponse(reqs[i], "NoError", <<>>)
           ELSE IF reqs[i].key \in present THEN PeerHit(reqs[i]) ELSE <<>> )
         \o PeerGets(reqs, i + 1, present)

\* get_multi(keys): one GetKQ for each key of the list, then one NoOp
DoGetMulti ==
    /\ Idle
    /\ \E n \in 1..MaxKeys :
          \E keys \in [1..n -> MultiKeys] :
            LET reqs == [i \in 1..(n + 1) |->
                            IF i <= n THEN GetKQRequest(keys[i], 7) ELSE NoOpRequest(7)]
            IN  conn' = [kind |-> "multi", state |-> "written", keys |-> keys,
                         sent |-> Written(WriteEach(reqs)), present |-> {},
                         pos |-> 0, entries |-> {}, result |-> NoRet]
    /\ UNCHANGED <<built, hdr, pkt, chan, wret, wire, rret, refw, call, ret>>

\* the peer, which has some of the keys, reads the requests and answers
DoPeerGets ==
    /\ conn.kind = "multi"
    /\ conn.state = "written"
    /\ \E present \in SUBSET MultiKeys :
          /\ wire' = PeerGets(ReadEach(conn.sent), 1, present)
          /\ conn' = [conn EXCEPT !.state = "answered", !.present = present]
    /\ UNCHANGED <<built, hdr, pkt, chan, wret, rret, refw, call, ret>>

\* one turn of the read loop of get_multi: the NoOp response ends it and the
\* mapping is returned; a response of status NoError adds the entry of its
\* key; a response of status KeyNotFound adds nothing; any other status is
\* returned through ok_or
DoGetMultiLoop ==
    /\ conn.kind = "multi"
    /\ conn.state = "answered"
    /\ \E failAt \in 0..2 :
          LET out == Packet_read_from_async(SubSeq(wire, conn.pos + 1, Len(wire)), failAt)
              resp == out.res.v
              st == Packet_status(resp, TRUE)
          IN  IF out.res.tag # "Ok"
              THEN conn' = [conn EXCEPT !.state = "failed", !.result = out.res]
              ELSE IF resp.header.opcode = "NoOp"
              THEN conn' = [conn EXCEPT !.state = "done",
                                        !.pos = @ + out.consumed,
                                        !.result = Ok(conn.entries)]
              ELSE IF st.tag # "Ok"
              THEN conn' = [conn EXCEPT !.state = "failed", !.result = st]
              ELSE IF st.v = "NoError"
              THEN conn' = [conn EXCEPT
                              !.pos = @ + out.consumed,
                              !.entries = @ \cup
                                  { [key |-> resp.key, val |-> resp.val,
                                     flags |-> IF resp.extras.tag = "Get"
                                               THEN resp.extras.flags ELSE 0] }]
              ELSE IF st.v = "KeyNotFound"
              THEN conn' = [conn EXCEPT !.pos = @ + out.consumed]
              ELSE conn' = [conn EXCEPT !.state = "failed",
                                        !.result = Status_ok_or(st.v, None)]
    /\ UNCHANGED <<built, hdr, pkt, chan, wret, wire, rret, refw, call, ret>>

\* the same header written by SyncOps::write_to and by AsyncOps::write_to,
\* each into its own empty Vec<u8>
DoHeaderWriteBoth ==
    /\ Idle
    /\ \E h \in HeaderSamples :
            /\ call' = [fn |-> "PacketHeader::write_to x2", header |-> h]
            /\ ret' = [sync |-> Ok(Written(WriteAllEach(PacketHeader_write_to_sync(h)))),
                       async |-> Ok(Written(WriteAllEach(PacketHeader_write_to_async(h))))]
            /\ FreshPacket

\* the same extras written by Extras::write_sync and by Extras::write, each
\* into its own empty Vec<u8>
DoExtrasWriteBoth ==
    /\ Idle
    /\ \E e \in ExtrasSamples :
            /\ call' = [fn |-> "Extras::write x2", extras |-> e]
            /\ ret' = [sync |-> Ok(Written(WriteAllEach(Extras_write_sync(e)))),
                       async |-> Ok(Written(WriteAllEach(Extras_write(e))))]
            /\ FreshPacket

\* the packet at hand written by SyncOps::write_to and by AsyncOps::write_to,
\* each into its own empty Vec<u8>
DoPacketWriteBoth ==
    /\ pkt # NoPkt
    /\ wret = NoRet
    /\ call = NoCall
    /\ call' = [fn |-> "Packet::write_to x2", packet |-> pkt]
    /\ ret' = [sync |-> Ok(Written(RunWriter(Packet_write_to_sync(pkt), 0).log)),
               async |-> Ok(Written(RunWriter(Packet_write_to_async(pkt), 0).log))]
    /\ UNCHANGED <<built, hdr, pkt, chan, wret, wire, rret, refw, conn>>

\* the bytes at hand read by <Packet as SyncOps>::read_from and by
\* <Packet as AsyncOps>::read_from, each from its own cursor over them; the
\* transport fails the same read in both, or none
DoReadBoth ==
    /\ CanRead
    /\ \E failAt \in 0..2 :
            /\ call' = [fn |-> "Packet::read_from x2", stream |-> wire,
                        failAt |-> failAt]
            /\ ret' = [sync |-> Packet_read_from_sync(wire, failAt).res,
                       async |-> Packet_read_from_async(wire, failAt).res]
    /\ UNCHANGED <<built, hdr, pkt, chan, wret, wire, rret, refw, conn>>

\* PacketHeader::parse(&buf) of the 24 bytes just written for a header
DoHeaderParseWritten ==
    /\ call.fn = "PacketHeader::write_to"
    /\ call' = [fn |-> "PacketHeader::parse written", mode |-> call.mode,
                header |-> call.header, buf |-> ret.v]
    /\ ret' = PacketHeader_parse(ret.v)
    /\ FreshPacket

\* pkt.is_response() and pkt.status() on a packet just built, in a build
\* with debug assertions or in one without
DoBuiltStatus ==
    /\ pkt # NoPkt
    /\ wret = NoRet
    /\ call = NoCall
    /\ \E d \in BOOLEAN :
            /\ call' = [fn |-> "Packet::status", of |-> "built", packet |-> pkt,
                        debug_assertions |-> d,
                        is_response |-> Packet_is_response(pkt)]
            /\ ret' = Packet_status(pkt, d)
    /\ UNCHANGED <<built, hdr, pkt, chan, wret, wire, rret, refw, conn>>

\* p.is_response() and p.status() on the packet that Packet::read_from
\* returned, in a build with debug assertions or in one without
DoReadStatus ==
    /\ rret # NoRet
    /\ rret.impl \in {"sync", "async"}
    /\ rret.out.res.tag = "Ok"
    /\ call = NoCall
    /\ \E d \in BOOLEAN :
            /\ call' = [fn |-> "Packet::status", of |-> "read",
                        packet |-> rret.out.res.v, debug_assertions |-> d,
                        is_response |-> Packet_is_response(rret.out.res.v)]
            /\ ret' = Packet_status(rret.out.res.v, d)
    /\ UNCHANGED <<built, hdr, pkt, chan, wret, wire, rret, refw, conn>>

Next ==
    \/ DoPacketRequest
    \/ DoPacketResponse
    \/ DoRequestFromPayload
    \/ DoResponseFromPayload
    \/ DoPacketNew
    \/ DoBinaryPacketNew
    \/ DoWriteSync
    \/ DoWriteAsync
    \/ DoRefWriteSync
    \/ DoRefWriteAsync
    \/ DoPeerSend
    \/ DoPeerSendCut
    \/ DoReadSync
    \/ DoReadAsync
    \/ DoBinaryRead
    \/ DoExtrasWriteSync
    \/ DoExtrasWrite
    \/ DoExtrasParseWritten
    \/ DoExtrasParse
    \/ DoHeaderParse
    \/ DoHeaderWriteSync
    \/ DoHeaderWriteAsync
    \/ DoBinaryHeaderRequest
    \/ DoBinaryHeaderResponse
    \/ DoOkOr
    \/ DoQuietBatch
    \/ DoPeerAnswer
    \/ DoReadLoop
    \/ DoAuthStart
    \/ DoAuthContinue
    \/ DoAuthPeer
    \/ DoAuthRead
    \/ DoGetMulti
    \/ DoPeerGets
    \/ DoGetMultiLoop
    \/ DoHeaderWriteBoth
    \/ DoExtrasWriteBoth
    \/ DoPacketWriteBoth
    \/ DoReadBoth
    \/ DoHeaderParseWritten
    \/ DoPeerSendStatus
    \/ DoBuiltStatus
    \/ DoReadStatus

Spec == Init /\ [][Next]_vars

---------------------------------------------------------------------------
(* The extras table of the specification (section 3): the opcodes each     *)
(* variant applies to.                                                     *)

TableStore == {"Set", "SetQ", "Add", "AddQ", "Replace", "ReplaceQ"}
TableGet == {"Get", "GetQ", "GetK", "GetKQ"}
TableCounter == {"Increment", "IncrementQ", "Decrement", "DecrementQ"}
TableFlush == {"Flush"}
TableVerbosity == {"Verbosity"}
TableTouch == {"Touch", "GAT", "GATQ"}
TableOpcodes ==
    TableStore \cup TableGet \cup TableCounter \cup TableFlush
        \cup TableVerbosity \cup TableTouch

\* the opcodes the table assigns to the variant of e: any opcode for None,
\* the opcodes outside the table for Unknown
ClassOpcodes(e) ==
    CASE e.tag = "None" -> Opcode
      [] e.tag = "Unknown" -> Opcode \ TableOpcodes
      [] e.tag = "Store" -> TableStore
      [] e.tag = "Counter" -> TableCounter
      [] e.tag = "Flush" -> TableFlush
      [] e.tag = "Verbosity" -> TableVerbosity
      [] e.tag = "Touch" -> TableTouch
      [] e.tag = "Get" -> TableGet

\* the byte values of enum Magic and of enum Opcode
MagicBytes == {128, 129}
OpcodeBytes == (0..30) \cup (32..34) \cup (48..71)

---------------------------------------------------------------------------
(* Claims. *)

\* C1: the header a request or response builder returns (Packet::request,
\* Packet::response, PacketHeader::request_from_payload,
\* PacketHeader::response_from_payload) has key_len = len(key),
\* extras_len = extras.len() and body_len = key_len + extras_len + len(val),
\* for a key, extras and value of any length.
C1_BuilderLengths ==
    built.by \in {"Packet::request", "Packet::response",
                  "PacketHeader::request_from_payload",
                  "PacketHeader::response_from_payload"}
    => /\ hdr.key_len = Len(built.key)
       /\ hdr.extras_len = Extras_len(built.extras)
       /\ hdr.body_len = hdr.key_len + hdr.extras_len + Len(built.val)

\* C2: Packet::new(h, e, k, v) returns a packet whose header has
\* key_len = len(k), extras_len = e.len() and
\* body_len = len(k) + e.len() + len(v), whatever lengths h carried.
C2_NewRecomputesLengths ==
    built.by \in {"Packet::new", "binary::Packet::new"}
    => /\ pkt.header.key_len = Len(built.key)
       /\ pkt.header.extras_len = Extras_len(built.extras)
       /\ pkt.header.body_len =
              Len(built.key) + Extras_len(built.extras) + Len(built.val)

\* C3: a packet p built by Packet::new with extras of the class of its
\* opcode, written to a writer and read back from the written bytes (no
\* failure of the transport), is read as a packet equal to p, and the read
\* takes exactly the bytes written.
C3_WriteReadIdentity ==
    ( /\ built.by \in {"Packet::new", "binary::Packet::new"}
      /\ built.opcode \in ClassOpcodes(built.extras)
      /\ rret # NoRet
      /\ rret.failAt = 0 )
    => /\ rret.out.res = Ok(pkt)
       /\ rret.out.consumed = Len(wire)

\* C4 as stated: for every Extras value v and every opcode of the class of
\* v's variant, parsing the bytes written for v gives back v.
C4_ExtrasRoundTrip ==
    ( /\ call.fn = "Extras::parse"
      /\ call.written
      /\ call.opcode \in ClassOpcodes(call.extras) )
    => ret = Ok(call.extras)

\* C4 as amended: the same for every Extras value but Unknown with no
\* bytes; Unknown with no bytes is written as zero bytes and parsed as None.
C4_ExtrasRoundTripAmended ==
    ( /\ call.fn = "Extras::parse"
      /\ call.written
      /\ call.opcode \in ClassOpcodes(call.extras) )
    => IF call.extras.tag = "Unknown" /\ Len(call.extras.b) = 0
       THEN ret = Ok(Extras_None)
       ELSE ret = Ok(call.extras)

C4_Witness ==
    /\ call.fn = "Extras::parse"
    /\ call.written
    /\ call.opcode = "Touch"
    /\ call.extras = Extras_Touch(1234)
    /\ call.buf = <<0, 0, 4, 210>>
    /\ ret = Ok(Extras_Touch(1234))

\* C5: Extras::parse of an empty buffer returns Extras::None for every
\* opcode, and never an error.
C5_EmptyExtrasIsNone ==
    (call.fn = "Extras::parse" /\ Len(call.buf) = 0) => ret = Ok(Extras_None)

C5_Witness ==
    /\ call.fn = "Extras::parse"
    /\ call.opcode = "Increment"
    /\ call.buf = <<>>
    /\ ~call.written
    /\ ret = Ok(Extras_None)

\* C6: for an opcode outside the extras table and a non-empty buffer b,
\* Extras::parse returns Unknown with exactly the bytes of b, in order.
C6_UnmappedKeepsBytes ==
    ( /\ call.fn = "Extras::parse"
      /\ call.opcode \notin TableOpcodes
      /\ Len(call.buf) > 0 )
    => ret = Ok(Extras_Unknown(call.buf))

C6_Witness ==
    /\ call.fn = "Extras::parse"
    /\ call.opcode = "FlushQ"
    /\ call.buf = <<1, 2, 3>>
    /\ ret = Ok(Extras_Unknown(<<1, 2, 3>>))

\* C7: decoding a 24-byte buffer whose magic byte is not 0x80 or 0x81, or
\* whose opcode byte is no value of Opcode, returns the error InvalidData: it
\* does not panic and gives no header; so does a Packet read of such a header.
C7_BadHeaderIsError ==
    /\ ( /\ call.fn = "PacketHeader::parse"
         /\ Len(call.buf) = 24
         /\ (call.buf[1] \notin MagicBytes \/ call.buf[2] \notin OpcodeBytes) )
       => ret = Err("InvalidData")
    /\ ( /\ built.by = "peer"
         /\ (built.magic \notin MagicBytes \/ built.opcode \notin OpcodeBytes)
         /\ rret # NoRet
         /\ rret.failAt = 0 )
       => rret.out.res = Err("InvalidData")

C7_Witness ==
    /\ call.fn = "PacketHeader::parse"
    /\ Len(call.buf) = 24
    /\ call.buf[1] = 129
    /\ call.buf[2] = 31
    /\ ret = Err("InvalidData")

\* C8: a Packet read of a header with extras_len + key_len > body_len (and
\* a known magic and opcode) returns an error; it neither panics nor returns
\* a packet.
C8_BadLengthsAreError ==
    ( /\ built.by = "peer"
      /\ built.magic \in MagicBytes
      /\ built.opcode \in OpcodeBytes
      /\ built.extras_len + built.key_len > built.body_len
      /\ rret # NoRet )
    => rret.out.res.tag = "Err"

\* C9: NoError.ok_or(d) is Ok(()); for every other status s, s.ok_or(d) is
\* an Err with a ProtoError of status s, description s.desc() and detail d.
C9_OkOr ==
    call.fn = "Status::ok_or"
    => IF call.status = "NoError"
       THEN ret = Ok(<<>>)
       ELSE /\ ret.tag = "Err"
            /\ ret.kind = "Proto"
            /\ ret.error.status = call.status
            /\ ret.error.desc = Status_desc(call.status)
            /\ ret.error.detail = call.detail

C9_Witness ==
    /\ call.fn = "Status::ok_or"
    /\ call.status = "KeyNotFound"
    /\ call.detail = Some("key foo")
    /\ ret.tag = "Err"
    /\ ret.error.desc = "key not found"

C11_RefWriteFlushes ==
    ( /\ refw # NoRet /\ refw.res.tag = "Ok"
      /\ wret.res.tag = "Ok" )
    => /\ Written(refw.log) = Written(chan)
       /\ Len(refw.log) > 0
       /\ refw.log[Len(refw.log)] = Flush

\* C11 as amended: such a write has emitted the bytes the write of the
\* packet emitted, by the same calls in the same order but for the flush: it
\* never flushes the writer.
C11_RefWriteSameBytesNoFlush ==
    ( /\ refw # NoRet /\ refw.res.tag = "Ok"
      /\ wret.res.tag = "Ok" )
    => /\ Written(refw.log) = Written(chan)
       /\ refw.log \o << Flush >> = chan
       /\ \A i \in 1..Len(refw.log) : refw.log[i].op = "write_all"

C11_Witness ==
    /\ refw # NoRet
    /\ refw.mode = "async"
    /\ refw.res.tag = "Ok"
    /\ wret.res.tag = "Ok"
    /\ pkt.extras = Extras_Counter(1, 16909060, 1234)
    /\ pkt.key = KeyFoo
    /\ Len(Written(refw.log)) = 24 + 20 + 3 + Len(pkt.val)
    /\ Written(refw.log) = wire

\* C12: a Packet read (no failure of the transport) of a stream that starts
\* with a header of a known magic and opcode and lengths
\* extras_len + key_len <= body_len, followed by at least body_len bytes,
\* takes exactly 24 + body_len bytes off the stream; it returns what the
\* decoding of body[0, extras_len) returns when that is an error, and
\* otherwise a packet with those extras, the key
\* body[extras_len, extras_len + key_len) and the value
\* body[extras_len + key_len, body_len).
C12_ReadSplitsByOffset ==
    ( /\ built.by = "peer"
      /\ built.magic \in MagicBytes
      /\ built.opcode \in OpcodeBytes
      /\ built.extras_len + built.key_len <= built.body_len
      /\ built.avail >= built.body_len
      /\ rret # NoRet
      /\ rret.failAt = 0
      /\ rret.impl \in {"sync", "async"} )
    => LET el == built.extras_len
           kl == built.key_len
           bl == built.body_len
           body == SubSeq(wire, 25, 24 + bl)
           e == Extras_parse(Opcode_from_u8(built.opcode).v, SubSeq(body, 1, el))
           out == rret.out
       IN  /\ out.consumed = 24 + bl
           /\ IF e.tag = "Ok"
              THEN /\ out.res.tag = "Ok"
                   /\ out.res.v.extras = e.v
                   /\ out.res.v.key = SubSeq(body, el + 1, el + kl)
                   /\ out.res.v.val = SubSeq(body, el + kl + 1, bl)
                   /\ Len(out.res.v.key) = kl
                   /\ Len(out.res.v.val) = bl - el - kl
              ELSE out.res = e

C12_Witness ==
    /\ built.by = "peer"
    /\ built.opcode = 8
    /\ built.extras_len = 4 /\ built.key_len = 1 /\ built.body_len = 8
    /\ built.avail = 9
    /\ rret # NoRet
    /\ rret.impl = "async"
    /\ rret.failAt = 0
    /\ rret.out.res.tag = "Ok"
    /\ rret.out.res.v.extras = Extras_Flush(16909060)
    /\ rret.out.res.v.key = <<5>>
    /\ rret.out.res.v.val = <<6, 7, 8>>
    /\ rret.out.consumed = 32
    /\ Len(wire) = 33

\* the header at the head of the wire decodes, and its body_len
WireHeaderOk ==
    Len(wire) >= 24 /\ wire[1] \in MagicBytes /\ wire[2] \in OpcodeBytes
WireBodyLen == from_be_bytes(SubSeq(wire, 9, 12))

\* C13 as stated: every Packet read makes exactly two read_exact calls on
\* the reader: one of 24 bytes, then one of body_len bytes.
C13_TwoReads ==
    rret # NoRet
    => /\ Len(rret.out.reads) = 2
       /\ rret.out.reads[1] = 24
       /\ (rret.failAt # 1 /\ WireHeaderOk) => rret.out.reads[2] = WireBodyLen

\* C13 as amended: a Packet read of src/src/packet.rs (blocking or
\* suspending) makes one read_exact call of 24 bytes and then, when the header
\* was read and decoded, exactly one read_exact call of body_len bytes, and no
\* other read; when the header read fails or the header does not decode it
\* makes no second read.  The older Packet::read / read_sync of
\* src/src/binary/packet.rs makes the header read and then one read each for
\* the extras, the key and the value.
C13_TwoReadsPastHeader ==
    rret # NoRet
    => LET reads == rret.out.reads
           headerOk == rret.failAt # 1 /\ WireHeaderOk
           el == wire[5]
           kl == from_be_bytes(SubSeq(wire, 3, 4))
       IN  IF rret.impl \in {"sync", "async"}
           THEN reads = IF headerOk THEN << 24, WireBodyLen >> ELSE << 24 >>
           ELSE /\ Len(reads) \in 1..4
                /\ reads[1] = 24
                /\ ~headerOk => reads = << 24 >>
                /\ rret.out.res.tag = "Ok"
                      => reads = << 24, el, kl, WireBodyLen - el - kl >>

C13_Witness ==
    /\ built.by = "peer"
    /\ built.extras_len = 4 /\ built.key_len = 1 /\ built.body_len = 8
    /\ rret # NoRet
    /\ rret.impl = "async"
    /\ rret.out.res.tag = "Ok"
    /\ rret.out.res.v.key = <<5>>
    /\ rret.out.reads = << 24, 8 >>

\* byte k (0 = least significant) of the number v
ByteOf(v, k) ==
    CASE k = 0 -> v % 256
      [] k = 1 -> (v \div 256) % 256
      [] k = 2 -> (v \div 65536) % 256
      [] k = 3 -> (v \div 16777216) % 256
      [] OTHER -> 0

\* C14: the bytes a header write emits are exactly 24: byte 0 the magic,
\* byte 1 the opcode, bytes 2-3 key_len, byte 4 extras_len, byte 5
\* data_type, bytes 6-7 vbucket_id_or_status, bytes 8-11 body_len, bytes
\* 12-15 opaque, bytes 16-23 cas, each number most significant byte first;
\* and PacketHeader::size() is 24.
C14_HeaderLayout ==
    /\ PacketHeader_size = 24
    /\ call.fn = "PacketHeader::write_to"
       => LET h == call.header
              b == ret.v
          IN  /\ ret.tag = "Ok"
              /\ Len(b) = 24
              /\ b[1] = (IF h.magic = "Request" THEN 128 ELSE 129)
              /\ b[2] = Opcode_as_u8(h.opcode)
              /\ << b[3], b[4] >> = << ByteOf(h.key_len, 1), ByteOf(h.key_len, 0) >>
              /\ b[5] = h.extras_len
              /\ b[6] = h.data_type
              /\ << b[7], b[8] >> = << ByteOf(h.vbucket_id_or_status, 1),
                                       ByteOf(h.vbucket_id_or_status, 0) >>
              /\ \A k \in 0..3 : b[12 - k] = ByteOf(h.body_len, k)
              /\ \A k \in 0..3 : b[16 - k] = ByteOf(h.opaque, k)
              /\ \A k \in 0..7 : b[24 - k] = ByteOf(h.cas, k)

C14_Witness ==
    /\ call.fn = "PacketHeader::write_to"
    /\ call.mode = "sync"
    /\ call.header.key_len = 258
    /\ call.header.extras_len = 255
    /\ call.header.opcode = "SetQ"
    /\ ret.v = << 129, 17, 1, 2, 255, 7, 2, 1, 127, 255, 255, 255,
                  1, 2, 3, 4, 0, 0, 0, 0, 5, 6, 7, 8 >>

\* C15: a Packet read whose reader fails or ends before the 24 header bytes
\* are delivered, or (the header being decoded) before the body_len body
\* bytes are delivered, returns an I/O error and no packet, and makes no read
\* after the one that failed.
C15_ShortReadIsError ==
    ( /\ rret # NoRet
      /\ rret.impl \in {"sync", "async"} )
    => LET out == rret.out
           ioError == /\ out.res.tag = "Err"
                      /\ out.res.kind \in {"Other", "UnexpectedEof"}
       IN  /\ (rret.failAt = 1 \/ Len(wire) < 24)
                => (ioError /\ out.reads = << 24 >>)
           /\ ( /\ rret.failAt # 1
                /\ WireHeaderOk
                /\ (rret.failAt = 2 \/ Len(wire) < 24 + WireBodyLen) )
                => (ioError /\ out.reads = << 24, WireBodyLen >>)

C15_Witness ==
    /\ built.by = "peer"
    /\ built.body_len = 8
    /\ built.avail = 7
    /\ built.extras_len = 4
    /\ rret # NoRet
    /\ rret.impl = "sync"
    /\ rret.failAt = 0
    /\ rret.out.res = Err("UnexpectedEof")
    /\ rret.out.reads = << 24, 8 >>

\* the channel ends one byte short of a header: an error, no packet
C15_WitnessShortHeader ==
    /\ built.by = "peer_cut"
    /\ Len(wire) = 23
    /\ rret # NoRet
    /\ rret.failAt = 0
    /\ rret.out.res = Err("UnexpectedEof")

\* C16: when the read loop of a quiet batch has ended at the NoOp response,
\* the issuer has read exactly (number of failed quiet requests) + 1
\* packets, the last of them the response to its NoOp and the ones before it
\* the errors of the failed requests in request order, and nothing is left
\* unread; with three quiet requests and no failure that is one packet, with
\* only the second failing two.  The loop ends before the NoOp response
\* only when the transport fails a read.
C16_QuietBatchCount ==
    /\ (conn.kind = "batch" /\ conn.state = "answered")
         => Len(conn.seen) <= Cardinality(conn.failed)
    /\ (conn.kind = "batch" /\ conn.state = "failed")
         => conn.result = Err("Other")
    /\ (conn.kind = "batch" /\ conn.state = "done")
         => LET k == Len(conn.seen)
                last == conn.seen[k].header
            IN  /\ k = Cardinality(conn.failed) + 1
                /\ last.opcode = "NoOp"
                /\ last.magic = "Response"
                /\ last.opaque = conn.reqs[conn.n + 1].header.opaque
                /\ \A i \in 1..(k - 1) :
                      /\ conn.seen[i].header.opcode = "SetQ"
                      /\ conn.seen[i].header.vbucket_id_or_status # 0
                /\ conn.pos = Len(wire)
                /\ (conn.n = 3 /\ conn.failed = {}) => k = 1
                /\ (conn.n = 3 /\ conn.failed = {2})
                      => /\ k = 2
                         /\ conn.seen[1].header.opaque = conn.reqs[2].header.opaque
                         /\ conn.seen[1].val = <<78, 111>>

C16_Witness ==
    /\ conn.kind = "batch"
    /\ conn.state = "done"
    /\ conn.n = 3
    /\ conn.failed = {2}
    /\ Len(conn.seen) = 2
    /\ conn.seen[1].header.vbucket_id_or_status = 5
    /\ conn.seen[2].header.opcode = "NoOp"

\* C17: in a quiet batch whose read loop has ended at the NoOp response,
\* every packet read before the NoOp response carries the opaque of exactly
\* one request of the batch, a quiet request that failed, and the failure is
\* reported: when a quiet request failed the batch does not return Ok, and
\* no packet was dropped.
C17_BatchErrorsReachCaller ==
    (conn.kind = "batch" /\ conn.state = "done")
    => /\ \A i \in 1..(Len(conn.seen) - 1) :
             LET same == { j \in 1..(conn.n + 1) :
                             conn.reqs[j].header.opaque = conn.seen[i].header.opaque }
             IN  /\ Cardinality(same) = 1
                 /\ same \subseteq conn.failed
       /\ conn.failed # {} => conn.result.tag = "Err"
       /\ conn.dropped = <<>>

\* C18: the opaque tokens of the requests of a quiet batch (the quiet
\* requests and the NoOp behind them) are pairwise distinct.
C18_OpaquesDistinct ==
    conn.kind = "batch"
    => \A i, j \in 1..(conn.n + 1) :
          i # j => conn.reqs[i].header.opaque # conn.reqs[j].header.opaque

\* the steps of the handshake the specification allows
AuthSteps ==
    { << "Unauthenticated", "Continuing" >>,
      << "Continuing", "Continuing" >>,
      << "Continuing", "Authenticated" >>,
      << "Continuing", "Failed" >> }

\* C19: the handshake starts Unauthenticated and moves only from
\* Unauthenticated to Continuing and from Continuing to Continuing,
\* Authenticated or Failed; a call that reads a response of status
\* AuthenticationContinue returns Continue with the challenge of the
\* response and leaves the handshake Continuing, one that reads NoError
\* returns Succeeded and makes it Authenticated, one that reads
\* AuthenticationError returns Failed and makes it Failed; it is
\* Authenticated only after a Succeeded; and auth_start with a mechanism the
\* peer does not support returns Failed.
C19_AuthHandshake ==
    conn.kind = "auth"
    => /\ conn.hist[1] = "Unauthenticated"
       /\ \A i \in 1..(Len(conn.hist) - 1) :
             << conn.hist[i], conn.hist[i + 1] >> \in AuthSteps
       /\ conn.state = conn.hist[Len(conn.hist)]
       /\ conn.state = "Authenticated"
             => conn.result = Ok(AuthResponse_Succeeded)
       /\ conn.phase = "returned"
             => /\ conn.status = "AuthenticationContinue"
                     => /\ conn.result = Ok(AuthResponse_Continue(SubSeq(wire, 25, Len(wire))))
                        /\ Len(wire) > 24
                        /\ conn.state = "Continuing"
                /\ conn.status = "NoError"
                     => /\ conn.result = Ok(AuthResponse_Succeeded)
                        /\ conn.state = "Authenticated"
                /\ conn.status = "AuthenticationError"
                     => /\ conn.result = Ok(AuthResponse_Failed)
                        /\ conn.state = "Failed"
                /\ (conn.call = "auth_start" /\ conn.mech \notin SupportedMechanisms)
                     => conn.result = Ok(AuthResponse_Failed)

C19_Witness ==
    /\ conn.kind = "auth"
    /\ conn.phase = "returned"
    /\ conn.call = "auth_continue"
    /\ conn.hist = << "Unauthenticated", "Continuing", "Continuing", "Authenticated" >>
    /\ conn.result = Ok(AuthResponse_Succeeded)

\* auth_start with a mechanism the peer does not support: Failed
C19_WitnessUnsupported ==
    /\ conn.kind = "auth"
    /\ conn.phase = "returned"
    /\ conn.call = "auth_start"
    /\ conn.mech = <<88>>
    /\ conn.hist = << "Unauthenticated", "Continuing", "Failed" >>
    /\ conn.result = Ok(AuthResponse_Failed)

AskedKeys == { conn.keys[i] : i \in DOMAIN conn.keys }

\* C21: when get_multi returns, it returns Ok with a mapping that has one
\* entry for each key of the list that the peer has, with the value and the
\* flags stored under it, and no entry for any other key; a key the peer
\* lacks gives no error.  It returns an error only when the transport fails
\* a read.
C21_GetMultiFoundOnly ==
    /\ (conn.kind = "multi" /\ conn.state = "done")
         => /\ conn.result.tag = "Ok"
            /\ { e.key : e \in conn.result.v } = AskedKeys \cap conn.present
            /\ Cardinality(conn.result.v) = Cardinality(AskedKeys \cap conn.present)
            /\ \A e \in conn.result.v :
                  /\ e.val = <<118>> \o e.key
                  /\ e.flags = e.key[1] + 256
            /\ conn.pos = Len(wire)
    /\ (conn.kind = "multi" /\ conn.state = "failed")
         => conn.result = Err("Other")

C21_Witness ==
    /\ conn.kind = "multi"
    /\ conn.state = "done"
    /\ conn.keys = << <<97>>, <<98>>, <<99>> >>
    /\ conn.present = { <<97>>, <<99>> }
    /\ conn.result = Ok({ [key |-> <<97>>, val |-> <<118, 97>>, flags |-> 353],
                          [key |-> <<99>>, val |-> <<118, 99>>, flags |-> 355] })

\* C22: the blocking and the suspending codec are the same: a header, an
\* extras value and a packet are written as the same bytes by both, and a
\* byte stream is read to the same result by both
C22_SyncAsyncSameCodec ==
    (call # NoCall /\ call.fn \in {"PacketHeader::write_to x2", "Extras::write x2",
                                     "Packet::write_to x2", "Packet::read_from x2"})
        => ret.sync = ret.async

\* both modes read a whole packet with extras, a key and a value from the
\* bytes that a packet write produced
C22_Witness ==
    /\ call # NoCall
    /\ call.fn = "Packet::read_from x2"
    /\ wret # NoRet
    /\ ret.sync.tag = "Ok"
    /\ ret.async.tag = "Ok"
    /\ ret.async.v.extras.tag = "Store"
    /\ Len(ret.async.v.key) > 0
    /\ Len(ret.async.v.val) > 0

\* both modes wrote a packet with extras, a key and a value
C22_WitnessWrite ==
    /\ call # NoCall
    /\ call.fn = "Packet::write_to x2"
    /\ call.packet.extras.tag = "Store"
    /\ Len(call.packet.key) > 0
    /\ Len(call.packet.val) > 0
    /\ Len(ret.async.v) > PacketHeader_size

\* C23: the header round trip: PacketHeader::parse of the 24 bytes written
\* for a header h returns h, equal in every field
C23_HeaderRoundTrip ==
    (call # NoCall /\ call.fn = "PacketHeader::parse written")
        => /\ Len(call.buf) = PacketHeader_size
           /\ ret = Ok(call.header)

\* a response header with every field non-zero was written by the
\* suspending writer and parsed back
C23_Witness ==
    /\ call # NoCall
    /\ call.fn = "PacketHeader::parse written"
    /\ call.mode = "async"
    /\ call.header.magic = "Response"
    /\ call.header.key_len = 65535
    /\ call.header.extras_len = 255
    /\ call.header.data_type = 7
    /\ call.header.vbucket_id_or_status = 513
    /\ call.header.body_len = 2147483647
    /\ call.header.cas = 84281096
    /\ ret.tag = "Ok"
    /\ ret.v.data_type = 7

\* C24: a packet built by Packet::response(opcode, s, ...) is a response
\* packet: is_response() holds of it, so the debug assertion of status() is
\* satisfied, and status() returns s
C24_ResponseIsResponse ==
    (call # NoCall /\ call.fn = "Packet::status" /\ call.of = "built"
        /\ built.by = "Packet::response")
        => /\ call.is_response
           /\ ret = Ok(built.corr[1])

\* status() was called, in a build with debug assertions, on a packet that
\* Packet::response built with the status KeyNotFound
C24_Witness ==
    /\ call # NoCall
    /\ call.fn = "Packet::status"
    /\ call.of = "built"
    /\ built.by = "Packet::response"
    /\ built.corr[1] = "KeyNotFound"
    /\ call.debug_assertions
    /\ ~call.is_response
    /\ ret = Panic

\* C25: status() of a packet that Packet::read_from returned yields a Status
\* and never panics; a status value outside the table is reported as an
\* error value
C25_StatusNeverPanics ==
    (call # NoCall /\ call.fn = "Packet::status" /\ call.of = "read")
        => /\ ret # Panic
           /\ ret.tag = "Ok"
                <=> Status_from_u16(call.packet.header.vbucket_id_or_status).some

\* status() was called, in a build without debug assertions, on a response
\* read from a peer whose status value is 0x000a, and panicked
C25_Witness ==
    /\ call # NoCall
    /\ call.fn = "Packet::status"
    /\ call.of = "read"
    /\ call.is_response
    /\ ~call.debug_assertions
    /\ call.packet.header.vbucket_id_or_status = 10
    /\ ret = Panic

\* C26: every packet p that Packet::read_from returns agrees with its header:
\* p.extras.len() = extras_len, len(key) = key_len and
\* len(val) = body_len - extras_len - key_len; so no extras byte is dropped,
\* and writing p again gives back the bytes that were read
C26_ReadKeepsLengths ==
    (rret # NoRet /\ rret.impl \in {"sync", "async"} /\ rret.out.res.tag = "Ok")
        => LET p == rret.out.res.v
               h == p.header
           IN  /\ Extras_len(p.extras) = h.extras_len
               /\ Len(p.key) = h.key_len
               /\ Len(p.val) = h.body_len - h.extras_len - h.key_len
               /\ Written(RunWriter(Packet_write_to_sync(p), 0).log)
                     = SubSeq(wire, 1, rret.out.consumed)

\* a peer sent opcode Flush with eight extras bytes; the packet read has the
\* four-byte Flush extras under a header that says eight
C26_Witness ==
    /\ built.by = "peer"
    /\ built.opcode = 8
    /\ built.extras_len = 8
    /\ rret # NoRet
    /\ rret.impl = "async"
    /\ rret.out.res.tag = "Ok"
    /\ rret.out.res.v.header.extras_len = 8
    /\ rret.out.res.v.extras.tag = "Flush"
    /\ Extras_len(rret.out.res.v.extras) = 4
    /\ Len(Written(RunWriter(Packet_write_to_async(rret.out.res.v), 0).log)) = 28
    /\ rret.out.consumed = 32

\* the number of extras bytes of the shape that the table gives an opcode,
\* 0 for an opcode without a fixed shape
ShapeLen(opcode) ==
    CASE opcode \in TableStore -> 8
      [] opcode \in TableCounter -> 20
      [] opcode \in TableGet \cup TableFlush \cup TableVerbosity \cup TableTouch -> 4
      [] OTHER -> 0

\* C27: Extras::parse never panics; for an opcode with a fixed shape and a
\* buffer that is not empty and shorter than the shape it returns an I/O
\* error and no Extras, and Packet::read_from returns that error
C27_ShortExtrasIsError ==
    /\ (call # NoCall /\ call.fn = "Extras::parse")
          => /\ ret # Panic
             /\ (0 < Len(call.buf) /\ Len(call.buf) < ShapeLen(call.opcode))
                  => ret = Err("UnexpectedEof")
    /\ ( /\ built.by = "peer"
         /\ built.magic \in MagicBytes
         /\ built.opcode \in OpcodeBytes
         /\ built.extras_len <= built.body_len
         /\ built.avail >= built.body_len
         /\ 0 < built.extras_len
         /\ built.extras_len < ShapeLen(Opcode_from_u8(built.opcode).v)
         /\ rret # NoRet
         /\ rret.impl \in {"sync", "async"}
         /\ rret.failAt = 0 )
          => rret.out.res = Err("UnexpectedEof")

\* a packet read got 4 extras bytes under opcode Set and returned the
\* end-of-input error of Extras::parse
C27_Witness ==
    /\ built.by = "peer"
    /\ built.magic = 129
    /\ built.opcode = 1
    /\ built.extras_len = 4
    /\ built.body_len = 5
    /\ built.avail = 5
    /\ rret # NoRet
    /\ rret.impl = "sync"
    /\ rret.failAt = 0
    /\ rret.out.res = Err("UnexpectedEof")

\* Extras::parse got 19 bytes under a counter opcode and returned the
\* end-of-input error
C27_WitnessCounter ==
    /\ call # NoCall
    /\ call.fn = "Extras::parse"
    /\ call.opcode = "Decrement"
    /\ Len(call.buf) = 19
    /\ ret = Err("UnexpectedEof")

====
